---- MODULE Spec2Model ----
(***************************************************************************)
(* Model of the secure command channel of the QGIS MCP server:             *)
(*   - AsyncOperationManager / AsyncCommandExecutor (async_executor.py)    *)
(*   - ImprovedRateLimiter (security_improved.py)                          *)
(*   - BufferedProtocolHandler (protocol.py)                               *)
(*   - SecureQGISMCPServer dispatcher (qgis_mcp_server_secure.py)          *)
(* Each component has its own specification over the shared variables.     *)
(***************************************************************************)
EXTENDS Integers, Sequences, FiniteSets, TLC

(***************************************************************************)
(* Bounds of the model                                                     *)
(***************************************************************************)
\* failed authentications of one client that are recorded in a run of the model
MaxFailures == 6
\* seconds of a handler's run time that are counted (the count stops there)
MaxElapsed == 2

(***************************************************************************)
(* Async operation manager: constants                                      *)
(***************************************************************************)
\* request ids the callers use
OpIds == {"a", "b"}
\* AsyncCommandExecutor.__init__: self.timeout = timeout or 300.0
DEFAULT_TIMEOUT == 300
\* AsyncOperationManager(max_concurrent=..., cleanup_after=...) as configured
max_concurrent == 1
cleanup_after == 0
\* number of executors (threads) start_operation creates in a run of the model:
\* one more than the concurrency cap
MaxExec == max_concurrent + 1
\* timeouts the callers pass (0 stands for None)
Timeouts == {1}
\* values a handler returns, percentages it reports
HandlerResults == {"r1"}
Percents == {50}
\* exceptions a handler raises by itself
HandlerErrors == {"TimeoutError", "RuntimeError"}

VARIABLES
    operations,     \* AsyncOperationManager.operations: request id -> executor index (0: absent)
    executors,      \* every AsyncCommandExecutor ever created, with its result_obj and its thread position
    mgr_lock,       \* AsyncOperationManager._lock: 0 free, e > 0 held by cancel_operation on executor e
    mgr_ret,        \* the last manager call and what it returned
    wire,           \* the bytes the peer sends on the connection
    sent,           \* number of bytes of wire fed into the handler so far
    buffer,         \* BufferedProtocolHandler.buffer
    expected_message_size,  \* BufferedProtocolHandler.expected_message_size (-1: None)
    fr_call,        \* the last call on the handler and what it returned
    parsed,         \* the messages try_read_message has returned, in order
    request_history,        \* ImprovedRateLimiter.request_history: key -> ages (now - t) of its timestamps
    failed_auth_attempts,   \* ImprovedRateLimiter.failed_auth_attempts: client -> ages of its timestamps
    lockouts,       \* ImprovedRateLimiter.lockouts: client -> lockout_until - now (-1: no entry)
    rl_call,        \* the last call on the limiter since the clock moved, and its outcome
    require_auth,   \* SecureQGISMCPServer.require_auth
    conns,          \* the connections: open or closed, the peer's client_id, _handle_client's local `authenticated`
    active_connections,     \* SecureQGISMCPServer.active_connections
    authenticated_clients,  \* AuthenticationManager.authenticated_clients
    srv_call,       \* the last step of the server and the response it sent
    rx,             \* a ProtocolHandler and its receive_message call on the connection
    lm,             \* an ImprovedRateLimiter serving many clients: request_history as the dict it is, the clients seen
    cl,             \* SecureQGISMCPClient with its ConnectionPool, the sockets it has created and its threads
    sb,             \* ImprovedCodeSandbox: the last call on it, what it validated and what it ran
    hc              \* _handle_client on connection 1: where its loop is, the frames its peer sends, the responses sent

asyncVars == <<operations, executors, mgr_lock, mgr_ret>>

framerVars == <<wire, sent, buffer, expected_message_size, fr_call, parsed>>

limiterVars == <<request_history, failed_auth_attempts, lockouts, rl_call>>

serverVars == <<require_auth, conns, active_connections, authenticated_clients, srv_call>>

vars == <<asyncVars, framerVars, limiterVars, serverVars, rx, hc, sb, lm, cl>>

(***************************************************************************)
(* OperationStatus                                                         *)
(***************************************************************************)
PENDING == "pending"
RUNNING == "running"
COMPLETED == "completed"
FAILED == "failed"
CANCELLED == "cancelled"
TIMEOUT == "timeout"

OperationStatus == {PENDING, RUNNING, COMPLETED, FAILED, CANCELLED, TIMEOUT}
TerminalStatus == {COMPLETED, FAILED, CANCELLED, TIMEOUT}

\* AsyncCommandExecutor.__init__ with its AsyncOperationResult.__init__
NewExecutor(rid, timeout) ==
    [request_id |-> rid,
     timeout |-> IF timeout = 0 THEN DEFAULT_TIMEOUT ELSE timeout,
     cancelled |-> FALSE,
     status |-> PENDING,
     progress |-> 0,
     progress_message |-> "",
     result |-> "None",
     error |-> "None",
     ended |-> FALSE,
     age |-> 0,
     res_cancelled |-> FALSE,
     pc |-> "created",
     elapsed |-> 0,
     exc |-> "none",
     hret |-> "None",
     cb |-> "none"]

ExecIds == 1..Len(executors)

\* start_operation: number of operations whose status is RUNNING
ActiveCount ==
    Cardinality({rid \in OpIds : operations[rid] # 0
                                 /\ executors[operations[rid]].status = RUNNING})

\* operations in the table that have not ended (pending or running), as a caller counts them
Unfinished ==
    Cardinality({rid \in OpIds : operations[rid] # 0
                                 /\ executors[operations[rid]].status \in {PENDING, RUNNING}})

\* start_operation without the test for an id already in the table
AlreadyExistsNever(rid) == FALSE

\* start_operation: request_id in self.operations
AlreadyExists(rid) == operations[rid] # 0

\* AsyncOperationManager.start_operation (whole call, under the lock)
start_operation(rid, timeout) ==
    /\ mgr_lock = 0
    /\ Len(executors) < MaxExec
    /\ IF AlreadyExists(rid)
       THEN /\ mgr_ret' = "ValueError"
            /\ UNCHANGED <<operations, executors>>
       ELSE IF ActiveCount >= max_concurrent
       THEN /\ mgr_ret' = "RuntimeError"
            /\ UNCHANGED <<operations, executors>>
       ELSE /\ executors' = Append(executors, NewExecutor(rid, timeout))
            /\ operations' = [operations EXCEPT ![rid] = Len(executors) + 1]
            /\ mgr_ret' = "started"
    /\ UNCHANGED mgr_lock

\* AsyncOperationManager.get_status (to_dict()["status"])
get_status(rid) ==
    /\ mgr_lock = 0
    /\ mgr_ret' = IF operations[rid] = 0 THEN "None" ELSE executors[operations[rid]].status
    /\ UNCHANGED <<operations, executors, mgr_lock>>

\* AsyncOperationManager.cancel_operation, up to and including the first statement of
\* executor.cancel() (self.cancelled = True); the lock stays held while cancel() runs
cancel_operation(rid) ==
    /\ mgr_lock = 0
    /\ LET e == operations[rid] IN
       IF e = 0 \/ executors[IF e = 0 THEN 1 ELSE e].status \notin {PENDING, RUNNING}
       THEN /\ e = 0 \/ executors # <<>>
            /\ mgr_ret' = "False"
            /\ UNCHANGED <<mgr_lock, executors>>
       ELSE /\ mgr_lock' = e
            /\ executors' = [executors EXCEPT ![e].cancelled = TRUE]
            /\ mgr_ret' = "cancelling"
    /\ UNCHANGED operations

\* AsyncCommandExecutor.cancel: result_obj.status = CANCELLED; result_obj.cancelled = True;
\* result_obj.end_time = time.time(); cancel_operation returns True
cancel_finish(e) ==
    /\ mgr_lock = e
    /\ executors' = [executors EXCEPT ![e].status = CANCELLED,
                                      ![e].res_cancelled = TRUE,
                                      ![e].ended = TRUE,
                                      ![e].age = 0]
    /\ mgr_lock' = 0
    /\ mgr_ret' = "True"
    /\ UNCHANGED operations

\* cleanup_completed: `result.end_time and (now - result.end_time > self.cleanup_after)`
OldEnough(e) == executors[e].ended /\ executors[e].age > cleanup_after

\* AsyncOperationManager.cleanup_completed (whole call, under the lock)
cleanup_completed ==
    /\ mgr_lock = 0
    /\ operations' = [rid \in OpIds |->
          IF operations[rid] # 0 /\ OldEnough(operations[rid])
          THEN 0 ELSE operations[rid]]
    /\ operations' # operations
    /\ mgr_ret' = "cleaned"
    /\ UNCHANGED <<executors, mgr_lock>>

(***************************************************************************)
(* The worker thread of an executor: AsyncCommandExecutor.run              *)
(***************************************************************************)
workerUnchanged == <<operations, mgr_lock, mgr_ret>>

\* run() without its first statement
run_begin_no_status(e) ==
    /\ executors[e].pc = "created"
    /\ executors' = [executors EXCEPT ![e].elapsed = 0, ![e].pc = "handler"]
    /\ UNCHANGED workerUnchanged

\* run: result_obj.status = RUNNING; _execute_with_timeout: start_time = time.time()
run_begin(e) ==
    /\ executors[e].pc = "created"
    /\ executors' = [executors EXCEPT ![e].status = RUNNING,
                                      ![e].elapsed = 0,
                                      ![e].pc = "handler"]
    /\ UNCHANGED workerUnchanged

\* report_progress: `time.time() - start_time > self.timeout`
TimedOut(e) == executors[e].elapsed > executors[e].timeout

\* report_progress that does not look at self.cancelled
ProgressRaisesIgnoresCancel(e) ==
    IF TimedOut(e) THEN "TimeoutError" ELSE "none"

\* report_progress: the exception it raises, "none" when it returns
ProgressRaises(e) ==
    IF executors[e].cancelled THEN "InterruptedError"
    ELSE IF TimedOut(e) THEN "TimeoutError"
    ELSE "none"

\* the handler calls _progress_callback(percent, message); an exception it raises
\* propagates out of the handler (cb: how the last call of the callback ended)
report_progress(e, percent) ==
    /\ executors[e].pc = "handler"
    /\ executors' =
         IF ProgressRaises(e) = "InterruptedError"
         THEN [executors EXCEPT ![e].pc = "raised", ![e].exc = "InterruptedError", ![e].elapsed = 0,
                                ![e].cb = "InterruptedError"]
         ELSE IF ProgressRaises(e) = "none"
         THEN [executors EXCEPT ![e].progress = percent, ![e].progress_message = "msg",
                                ![e].cb = "returned"]
         ELSE [executors EXCEPT ![e].progress = percent, ![e].progress_message = "msg",
                                ![e].pc = "raised", ![e].exc = ProgressRaises(e), ![e].elapsed = 0,
                                ![e].cb = ProgressRaises(e)]
    /\ executors' # executors
    /\ UNCHANGED workerUnchanged

\* the handler returns a value
handler_return(e, v) ==
    /\ executors[e].pc = "handler"
    /\ executors' = [executors EXCEPT ![e].pc = "returned", ![e].hret = v, ![e].exc = "return",
                                      ![e].elapsed = 0]
    /\ UNCHANGED workerUnchanged

\* the handler raises an exception of its own
handler_raise(e, kind) ==
    /\ executors[e].pc = "handler"
    /\ executors' = [executors EXCEPT ![e].pc = "raised", ![e].exc = kind, ![e].elapsed = 0]
    /\ UNCHANGED workerUnchanged

\* run: `if not self.cancelled:` after the handler returned
run_check_cancelled(e) ==
    /\ executors[e].pc = "returned"
    /\ executors' = [executors EXCEPT ![e].pc = IF executors[e].cancelled THEN "done" ELSE "completing"]
    /\ UNCHANGED workerUnchanged

\* run() with the `except TimeoutError` clause left out
StatusOfExceptionNoTimeout(kind) == FAILED

\* the status run() stores for an exception: `except TimeoutError` before `except Exception`
StatusOfException(kind) == IF kind = "TimeoutError" THEN TIMEOUT ELSE FAILED

\* str(e) / the timeout text stored in result_obj.error
ErrorOfException(kind) ==
    IF kind = "TimeoutError" THEN "Operation timed out"
    ELSE IF kind = "InterruptedError" THEN "Operation cancelled"
    ELSE "str(e)"

\* run: the writes of the branch taken (status, result and progress or error, end_time)
run_finish(e) ==
    /\ executors[e].pc \in {"completing", "raised"}
    /\ executors' =
         IF executors[e].pc = "completing"
         THEN [executors EXCEPT ![e].status = COMPLETED,
                                ![e].result = executors[e].hret,
                                ![e].progress = 100,
                                ![e].ended = TRUE,
                                ![e].age = 0,
                                ![e].pc = "done"]
         ELSE [executors EXCEPT ![e].status = StatusOfException(executors[e].exc),
                                ![e].error = ErrorOfException(executors[e].exc),
                                ![e].ended = TRUE,
                                ![e].age = 0,
                                ![e].pc = "done"]
    /\ UNCHANGED workerUnchanged

Min(a, b) == IF a < b THEN a ELSE b

\* one second passes: time.time() grows by one for every thread. An executor keeps
\* elapsed = time.time() - start_time while _execute_with_timeout runs (counted up to
\* MaxElapsed; start_time is a local of that call) and
\* age = time.time() - result_obj.end_time (counted up to cleanup_after + 1, beyond
\* which cleanup_completed cannot tell two ages apart)
TickAsync ==
    /\ executors' = [e \in ExecIds |->
          [executors[e] EXCEPT
             !.elapsed = IF executors[e].pc = "handler" THEN Min(@ + 1, MaxElapsed) ELSE @,
             !.age = IF executors[e].ended THEN Min(@ + 1, cleanup_after + 1) ELSE 0]]
    /\ executors' # executors
    /\ UNCHANGED <<operations, mgr_lock, mgr_ret>>

InitAsync ==
    /\ operations = [rid \in OpIds |-> 0]
    /\ executors = <<>>
    /\ mgr_lock = 0
    /\ mgr_ret = "None"

NextAsync ==
    \/ \E rid \in OpIds, t \in Timeouts : start_operation(rid, t)
    \/ \E rid \in OpIds : get_status(rid)
    \/ \E rid \in OpIds : cancel_operation(rid)
    \/ \E e \in ExecIds : cancel_finish(e)
    \/ cleanup_completed
    \/ \E e \in ExecIds : run_begin(e)
    \/ \E e \in ExecIds, p \in Percents : report_progress(e, p)
    \/ \E e \in ExecIds, v \in HandlerResults : handler_return(e, v)
    \/ \E e \in ExecIds, k \in HandlerErrors : handler_raise(e, k)
    \/ \E e \in ExecIds : run_check_cancelled(e)
    \/ \E e \in ExecIds : run_finish(e)
    \/ TickAsync

(***************************************************************************)
(* Claims about the async operation manager                                *)
(***************************************************************************)
\* cancel_operation has returned True for executor e
CancelReturnedTrue(e) == executors[e].res_cancelled

\* C4 (as claimed): an operation for which cancel returned True is cancelled once its
\* worker has finished, whatever the handler did
C4_CancelledAfterWorker ==
    \A e \in ExecIds :
        (CancelReturnedTrue(e) /\ executors[e].pc = "done") => executors[e].status = CANCELLED

\* C5 (as claimed): start_operation accepts a submission only while fewer than
\* max_concurrent operations of the table have not ended
C5_CapacityEnforced ==
    [][Len(executors') > Len(executors) => Unfinished < max_concurrent]_vars

\* C6: with no cancellation requested, the final status follows from how the handler
\* ended: completed with its return value, timeout on TimeoutError, failed with the
\* rendered error on any other exception
C6_FinalStatus ==
    \A e \in ExecIds :
        (executors[e].pc = "done" /\ ~executors[e].cancelled) =>
            /\ executors[e].ended
            /\ executors[e].exc = "return" =>
                  (executors[e].status = COMPLETED /\ executors[e].result = executors[e].hret
                   /\ executors[e].result \in HandlerResults /\ executors[e].error = "None")
            /\ executors[e].exc = "TimeoutError" =>
                  (executors[e].status = TIMEOUT /\ executors[e].result = "None")
            /\ executors[e].exc \notin {"return", "TimeoutError"} =>
                  (executors[e].status = FAILED /\ executors[e].error = "str(e)"
                   /\ executors[e].result = "None")

\* C6 witness: a handler nobody cancelled raised TimeoutError and its worker has finished
C6_Witness ==
    \E e \in ExecIds :
        /\ executors[e].pc = "done" /\ ~executors[e].cancelled
        /\ executors[e].exc = "TimeoutError" /\ executors[e].status = TIMEOUT

\* C7 (as claimed): cancel_operation returns True at most once for an operation
C7_CancelTrueOnce ==
    [][\A e \in ExecIds :
          (mgr_lock = e /\ mgr_lock' = 0 /\ mgr_ret' = "True") => ~CancelReturnedTrue(e)]_vars

\* C8 (as claimed): no status query made after start_operation returned shows pending
C8_NeverPending == mgr_ret # PENDING

\* C8 (amended): an operation is pending only until its worker thread has begun run();
\* from then on its status is running or a later one
C8_PendingOnlyBeforeRun ==
    \A e \in ExecIds : executors[e].status = PENDING => executors[e].pc = "created"

\* C8 witness: a status query shows running for an operation whose worker has begun,
\* after an earlier operation was created
C8_Witness ==
    /\ mgr_ret = RUNNING
    /\ \E e \in ExecIds : executors[e].pc = "handler" /\ executors[e].status = RUNNING

(***************************************************************************)
(* Protocol framer: ProtocolHandler / BufferedProtocolHandler              *)
(* Bytes are numbers 0..255. A value of the message format is tagged with  *)
(* its type: a string, an integer or a map from strings to values.         *)
(***************************************************************************)
\* ProtocolHandler.MAX_MESSAGE_SIZE, 10 * 1024 * 1024 in the source, scaled to 40 bytes
MAX_MESSAGE_SIZE == 40
\* ProtocolHandler.HEADER_SIZE = struct.calcsize('!I')
HEADER_SIZE == 4

S(s) == [k |-> "str", v |-> s]
I(n) == [k |-> "int", v |-> n]
M(f) == [k |-> "map", v |-> f]

\* the strings of the model and their characters (UTF-8 bytes); "t25" and "t26" stand
\* for strings of 25 and 26 letters t
KnownStrings == {"type", "id", "data", "x", "ping", "t25", "t26"}
Chars(s) ==
    CASE s = "type" -> <<116, 121, 112, 101>>
      [] s = "id" -> <<105, 100>>
      [] s = "data" -> <<100, 97, 116, 97>>
      [] s = "x" -> <<120>>
      [] s = "ping" -> <<112, 105, 110, 103>>
      [] s = "t25" -> [i \in 1..25 |-> 116]
      [] s = "t26" -> [i \in 1..26 |-> 116]
      [] OTHER -> <<63>>
StrOf(chars) ==
    IF \E s \in KnownStrings : Chars(s) = chars
    THEN CHOOSE s \in KnownStrings : Chars(s) = chars
    ELSE "?"

\* a dict is written in the insertion order of its keys
KeyOrder == <<"type", "id", "data", "x">>
KeysInOrder(f) == SelectSeq(KeyOrder, LAMBDA key : key \in DOMAIN f)

RECURSIVE EncVal(_), EncEntries(_, _)
\* msgpack.packb: positive fixint, fixstr (0xa0 + length), fixmap (0x80 + entries)
EncVal(val) ==
    CASE val.k = "int" -> <<val.v>>
      [] val.k = "str" -> <<160 + Len(Chars(val.v))>> \o Chars(val.v)
      [] val.k = "map" -> <<128 + Cardinality(DOMAIN val.v)>> \o EncEntries(val.v, KeysInOrder(val.v))
EncEntries(f, ks) ==
    IF ks = <<>> THEN <<>>
    ELSE EncVal(S(Head(ks))) \o EncVal(f[Head(ks)]) \o EncEntries(f, Tail(ks))

\* ProtocolHandler.serialize (use_msgpack)
serialize(message) == EncVal(M(message))

DecFail == [ok |-> FALSE, val |-> I(0), next |-> 0]

\* the dict built from decoded key/value pairs: a later pair replaces an earlier one
MapOfPairs(pairs) ==
    [key \in {pairs[i][1] : i \in 1..Len(pairs)} |->
        pairs[CHOOSE i \in 1..Len(pairs) :
                 /\ pairs[i][1] = key
                 /\ \A j \in 1..Len(pairs) : pairs[j][1] = key => j <= i][2]]

RECURSIVE DecVal(_, _), DecEntries(_, _, _)
\* msgpack.unpackb of the value that starts at position p: positive fixint, fixmap with
\* string keys, fixstr; 0xc1 and a truncated value are errors
DecVal(b, p) ==
    IF p > Len(b) THEN DecFail
    ELSE IF b[p] < 128 THEN [ok |-> TRUE, val |-> I(b[p]), next |-> p + 1]
    ELSE IF b[p] < 144 THEN
        LET r == DecEntries(b, p + 1, b[p] - 128) IN
        IF r.ok THEN [ok |-> TRUE, val |-> M(MapOfPairs(r.val)), next |-> r.next] ELSE DecFail
    ELSE IF b[p] >= 160 /\ b[p] < 192 THEN
        IF p + (b[p] - 160) > Len(b) THEN DecFail
        ELSE [ok |-> TRUE, val |-> S(StrOf(SubSeq(b, p + 1, p + (b[p] - 160)))),
              next |-> p + (b[p] - 160) + 1]
    ELSE DecFail
DecEntries(b, p, n) ==
    IF n = 0 THEN [ok |-> TRUE, val |-> <<>>, next |-> p]
    ELSE LET key == DecVal(b, p) IN
         IF ~key.ok \/ key.val.k # "str" THEN DecFail
         ELSE LET val == DecVal(b, key.next) IN
              IF ~val.ok THEN DecFail
              ELSE LET r == DecEntries(b, val.next, n - 1) IN
                   IF ~r.ok THEN DecFail
                   ELSE [ok |-> TRUE, val |-> <<<<key.val.v, val.val>>>> \o r.val, next |-> r.next]

\* ProtocolHandler.deserialize: ok is FALSE where it raises ProtocolException (unpack
\* error, extra data, or a result that is no dict)
deserialize(data) ==
    LET r == DecVal(data, 1) IN
    IF r.ok /\ r.next = Len(data) + 1 /\ r.val.k = "map"
    THEN [ok |-> TRUE, msg |-> r.val.v]
    ELSE [ok |-> FALSE, msg |-> <<>>]

\* MESSAGE_SCHEMAS["base"], the schema of every type without an entry of its own
BaseSchemaOk(message) ==
    /\ DOMAIN message \subseteq {"type", "id", "data"}
    /\ message["type"].k = "str"
    /\ Len(Chars(message["type"].v)) >= 1 /\ Len(Chars(message["type"].v)) <= 50
    /\ message["id"].k \in {"str", "int"}
    /\ message["id"].k = "str" =>
          (Len(Chars(message["id"].v)) >= 1 /\ Len(Chars(message["id"].v)) <= 100)
    /\ "data" \in DOMAIN message => message["data"].k = "map"

\* ProtocolHandler.validate_message: TRUE where it returns, FALSE where it raises
validate_message(message) ==
    /\ "type" \in DOMAIN message
    /\ "id" \in DOMAIN message
    /\ BaseSchemaOk(message)

\* struct.pack('!I', n) and struct.unpack('!I', header)[0]; a header whose first byte
\* is not zero stands for a size of 2^24 or more, kept here as 2^24 plus the low bytes
PackHeader(n) == <<n \div 16777216, (n \div 65536) % 256, (n \div 256) % 256, n % 256>>
UnpackHeader(h) == (IF h[1] > 0 THEN 16777216 ELSE 0) + h[2] * 65536 + h[3] * 256 + h[4]

\* ProtocolHandler.pack_message: ok is FALSE where it raises ProtocolException
pack_message(message) ==
    IF ~validate_message(message) THEN [ok |-> FALSE, bytes |-> <<>>]
    ELSE IF Len(serialize(message)) > MAX_MESSAGE_SIZE THEN [ok |-> FALSE, bytes |-> <<>>]
    ELSE [ok |-> TRUE, bytes |-> PackHeader(Len(serialize(message))) \o serialize(message)]

\* BufferedProtocolHandler.expected_message_size = None
NoSize == 0 - 1

\* feed_data with the test on the offered bytes alone
FeedOverflowsDataOnly(buf, data) == Len(data) > MAX_MESSAGE_SIZE

\* BufferedProtocolHandler.feed_data: the overflow test
FeedOverflows(buf, data) == Len(buf) + Len(data) > MAX_MESSAGE_SIZE

CallRet(op, ret, k, before) == [op |-> op, ret |-> ret, k |-> k, before |-> before]

\* BufferedProtocolHandler.feed_data on the next k bytes of the wire; bytes it refuses
\* stay with the caller
feed_data(k) ==
    /\ LET data == SubSeq(wire, sent + 1, sent + k) IN
       IF FeedOverflows(buffer, data)
       THEN /\ fr_call' = CallRet("feed", "overflow", k, Len(buffer))
            /\ UNCHANGED <<buffer, sent>>
       ELSE /\ buffer' = buffer \o data
            /\ sent' = sent + k
            /\ fr_call' = CallRet("feed", "fed", k, Len(buffer))
    /\ UNCHANGED <<wire, expected_message_size, parsed>>

\* the removal of the frame that empties the buffer
RestCleared(buf, total) == <<>>

\* try_read_message: del self.buffer[:total_size]
Rest(buf, total) == SubSeq(buf, total + 1, Len(buf))

\* BufferedProtocolHandler.try_read_message as a function of the handler's fields:
\* the fields afterwards, ret "None", "message" or "ProtocolException", and the message
TryRead(buf, expected) ==
    IF Len(buf) < HEADER_SIZE
    THEN [buffer |-> buf, expected |-> expected, ret |-> "None", msg |-> <<>>]
    ELSE LET size == IF expected = NoSize THEN UnpackHeader(SubSeq(buf, 1, HEADER_SIZE))
                     ELSE expected
             total == HEADER_SIZE + size
         IN
         IF expected = NoSize /\ (size > MAX_MESSAGE_SIZE \/ size = 0)
         THEN \* clear_buffer(), raise
              [buffer |-> <<>>, expected |-> NoSize, ret |-> "ProtocolException", msg |-> <<>>]
         ELSE IF Len(buf) < total
         THEN [buffer |-> buf, expected |-> size, ret |-> "None", msg |-> <<>>]
         ELSE LET d == deserialize(SubSeq(buf, HEADER_SIZE + 1, total))
                  rest == Rest(buf, total)
              IN
              IF d.ok /\ validate_message(d.msg)
              THEN [buffer |-> rest, expected |-> NoSize, ret |-> "message", msg |-> d.msg]
              ELSE [buffer |-> rest, expected |-> NoSize, ret |-> "ProtocolException", msg |-> <<>>]

\* BufferedProtocolHandler.try_read_message
try_read_message ==
    /\ LET r == TryRead(buffer, expected_message_size) IN
       /\ buffer' = r.buffer
       /\ expected_message_size' = r.expected
       /\ fr_call' = CallRet("try_read", r.ret, 0, Len(buffer))
       /\ parsed' = IF r.ret = "message" THEN Append(parsed, r.msg) ELSE parsed
    /\ UNCHANGED <<wire, sent>>

\* the messages of the model
MsgSmall == [type |-> S("x"), id |-> I(1)]
MsgPing == [type |-> S("ping"), id |-> I(2)]
MsgT25 == [type |-> S("t25"), id |-> I(3)]
MsgT26 == [type |-> S("t26"), id |-> I(4)]
Messages == {MsgSmall, MsgPing, MsgT25, MsgT26}

\* what the peer may send: a packed frame of each message, two frames back to back, a
\* zero-length header, an over-limit header, a payload that is no message format, a
\* payload that is no dict, a message without id; the last ones followed by a good frame
Wires ==
    {pack_message(m).bytes : m \in Messages}
    \cup {pack_message(MsgSmall).bytes \o pack_message(MsgPing).bytes,
          <<0, 0, 0, 0>> \o pack_message(MsgSmall).bytes,
          PackHeader(MAX_MESSAGE_SIZE + 1) \o pack_message(MsgSmall).bytes,
          PackHeader(1) \o <<193>> \o pack_message(MsgSmall).bytes,
          PackHeader(1) \o <<1>> \o pack_message(MsgSmall).bytes,
          PackHeader(6) \o serialize([type |-> S("x")]) \o pack_message(MsgSmall).bytes}

IdleFramer ==
    /\ wire = <<>>
    /\ sent = 0
    /\ buffer = <<>>
    /\ expected_message_size = NoSize
    /\ fr_call = CallRet("none", "None", 0, 0)
    /\ parsed = <<>>

InitFramer ==
    /\ wire \in Wires
    /\ sent = 0
    /\ buffer = <<>>
    /\ expected_message_size = NoSize
    /\ fr_call = CallRet("none", "None", 0, 0)
    /\ parsed = <<>>

NextFramer ==
    \/ \E k \in 1..(Len(wire) - sent) : feed_data(k)
    \/ try_read_message

(***************************************************************************)
(* ImprovedRateLimiter.  Time is kept relative to the clock: a timestamp t  *)
(* is held as its age now - t, and a lockout as lockout_until - now.  The   *)
(* windows and budgets are scaled down, their names kept.                   *)
(***************************************************************************)
Clients == {"c1"}
\* operation types the callers pass; "other" is in no entry of limits
OpTypes == {"authentication", "normal", "other"}
\* ImprovedRateLimiter.limits (source: 5/900 s, 10/600 s, 30/60 s, 100/60 s)
limits ==
    [authentication |-> [max |-> 3, window |-> 2],
     expensive      |-> [max |-> 2, window |-> 2],
     normal         |-> [max |-> 2, window |-> 2],
     cheap          |-> [max |-> 3, window |-> 2]]
\* self.limits.get(operation_type, self.limits['normal'])
LimitsOf(operation_type) ==
    IF operation_type \in DOMAIN limits THEN limits[operation_type] ELSE limits["normal"]
\* record_failed_auth: cutoff = now - 3600 (scaled)
FAILED_WINDOW == 3
\* record_failed_auth: attempt_count >= 5
LOCKOUT_THRESHOLD == 5
\* record_failed_auth: min(60 * 60, 60 * 2 ** (attempt_count - 5)) (scaled)
LOCKOUT_BASE == 2
LOCKOUT_MAX == 3
NoLockout == 0 - 1

\* key = f"{client_addr}:{operation_type}"
Key(client_addr, operation_type) == <<client_addr, operation_type>>
Keys == Clients \X (DOMAIN limits \cup OpTypes)

\* self.lockouts holds a lockout of the client that has not expired
Locked(locks, client_addr) == locks[client_addr] > 0

\* the last call on the limiter or the authentication manager: its arguments, its
\* result, and whether the client was locked out when it was made
RlCall(op, client_addr, operation_type, ret, locked) ==
    [op |-> op, client |-> client_addr, optype |-> operation_type, ret |-> ret,
     locked |-> locked]
NoCall == RlCall("none", "", "", "None", FALSE)

\* [t for t in history if t > now - window]
Recent(ages, window) == SelectSeq(ages, LAMBDA a : a < window)

\* the limit test with > for >=
RateExceededStrict(count, max_requests) == count > max_requests

\* check_rate_limit: len(self.request_history[key]) >= max_requests
RateExceeded(count, max_requests) == count >= max_requests

\* check_rate_limit without the lockout test
LockoutInForceNever(locks, client_addr) == FALSE

\* check_rate_limit: client_addr in self.lockouts and now < lockout_until
LockoutInForce(locks, client_addr) ==
    locks[client_addr] # NoLockout /\ locks[client_addr] > 0

\* ImprovedRateLimiter.check_rate_limit as a function of the limiter's fields: what it
\* returns or raises and the fields afterwards; the periodic cleanup (more than 1000
\* keys in request_history) cannot run with the keys of this model
CheckRateLimit(history, locks, client_addr, operation_type) ==
    IF LockoutInForce(locks, client_addr)
    THEN [ret |-> "SecurityException", request_history |-> history, lockouts |-> locks]
    ELSE LET lim == LimitsOf(operation_type)
             key == Key(client_addr, operation_type)
             kept == Recent(history[key], lim.window)
             unlocked == [locks EXCEPT ![client_addr] = NoLockout]
         IN
         IF RateExceeded(Len(kept), lim.max)
         THEN [ret |-> "False", request_history |-> [history EXCEPT ![key] = kept],
               lockouts |-> unlocked]
         ELSE [ret |-> "True", request_history |-> [history EXCEPT ![key] = Append(kept, 0)],
               lockouts |-> unlocked]

\* ImprovedRateLimiter.check_rate_limit, under self._lock
check_rate_limit(client_addr, operation_type) ==
    LET r == CheckRateLimit(request_history, lockouts, client_addr, operation_type) IN
    /\ request_history' = r.request_history
    /\ lockouts' = r.lockouts
    /\ rl_call' = RlCall("check", client_addr, operation_type, r.ret,
                       Locked(lockouts, client_addr))
    /\ UNCHANGED failed_auth_attempts

\* the lockout test with > for >=
LockoutDueStrict(attempt_count) == attempt_count > LOCKOUT_THRESHOLD

\* record_failed_auth: attempt_count >= 5
LockoutDue(attempt_count) == attempt_count >= LOCKOUT_THRESHOLD

\* the lockout doubled without the upper limit
LockoutDurationUncapped(attempt_count) ==
    LOCKOUT_BASE * 2 ^ (attempt_count - LOCKOUT_THRESHOLD)

\* record_failed_auth: lockout_duration
LockoutDuration(attempt_count) ==
    Min(LOCKOUT_MAX, LOCKOUT_BASE * 2 ^ (attempt_count - LOCKOUT_THRESHOLD))

\* ImprovedRateLimiter.record_failed_auth as a function of the limiter's fields
RecordFailedAuth(failed, locks, client_addr) ==
    LET attempts == Append(Recent(failed[client_addr], FAILED_WINDOW), 0) IN
    [failed_auth_attempts |-> [failed EXCEPT ![client_addr] = attempts],
     lockouts |-> IF LockoutDue(Len(attempts))
                  THEN [locks EXCEPT ![client_addr] = LockoutDuration(Len(attempts))]
                  ELSE locks]

\* the model records a failure only while fewer than MaxFailures are on record
CanRecordFailure(client_addr) ==
    Len(Recent(failed_auth_attempts[client_addr], FAILED_WINDOW)) < MaxFailures

\* ImprovedRateLimiter.record_failed_auth, under self._lock
record_failed_auth(client_addr) ==
    LET r == RecordFailedAuth(failed_auth_attempts, lockouts, client_addr) IN
    /\ CanRecordFailure(client_addr)
    /\ failed_auth_attempts' = r.failed_auth_attempts
    /\ lockouts' = r.lockouts
    /\ rl_call' = RlCall("record_failed_auth", client_addr, "", "None",
                       Locked(lockouts, client_addr))
    /\ UNCHANGED request_history

\* record_successful_auth that forgets the failures and keeps the lockout
record_successful_auth_keeps_lockout(client_addr) ==
    /\ failed_auth_attempts' = [failed_auth_attempts EXCEPT ![client_addr] = <<>>]
    /\ rl_call' = RlCall("record_successful_auth", client_addr, "", "None",
                         Locked(lockouts, client_addr))
    /\ UNCHANGED <<request_history, lockouts>>

\* ImprovedRateLimiter.record_successful_auth, under self._lock
record_successful_auth(client_addr) ==
    /\ failed_auth_attempts' = [failed_auth_attempts EXCEPT ![client_addr] = <<>>]
    /\ lockouts' = [lockouts EXCEPT ![client_addr] = NoLockout]
    /\ rl_call' = RlCall("record_successful_auth", client_addr, "", "None",
                       Locked(lockouts, client_addr))
    /\ UNCHANGED request_history

Older(ages, cap) == [i \in DOMAIN ages |-> Min(ages[i] + 1, cap)]

\* time.time() moves on by one unit: every timestamp is one older (an age is counted
\* up to the window it is compared with), every lockout one nearer to its end
TickLimiter ==
    /\ request_history' =
          [key \in Keys |-> Older(request_history[key], LimitsOf(key[2]).window)]
    /\ failed_auth_attempts' =
          [c \in Clients |-> Older(failed_auth_attempts[c], FAILED_WINDOW)]
    /\ lockouts' = [c \in Clients |-> IF lockouts[c] > 0 THEN lockouts[c] - 1 ELSE lockouts[c]]
    /\ rl_call' = NoCall

\* ImprovedRateLimiter.__init__
InitLimiter ==
    /\ request_history = [key \in Keys |-> <<>>]
    /\ failed_auth_attempts = [c \in Clients |-> <<>>]
    /\ lockouts = [c \in Clients |-> NoLockout]
    /\ rl_call = NoCall

NextLimiter ==
    \/ \E c \in Clients, t \in OpTypes : check_rate_limit(c, t)
    \/ \E c \in Clients : record_failed_auth(c)
    \/ \E c \in Clients : record_successful_auth(c)
    \/ TickLimiter

(***************************************************************************)
(* ImprovedRateLimiter serving many clients: request_history is the dict   *)
(* the code keeps (a key is in it or not), no client has failed to         *)
(* authenticate, and check_rate_limit runs to its periodic cleanup         *)
(***************************************************************************)
ManyClients == {"p1", "p2", "p3", "p4"}
\* check_rate_limit: len(self.request_history) > 1000 (scaled)
CLEANUP_THRESHOLD == 2
\* max(limit['window'] for limit in self.limits.values())
MaxWindow ==
    CHOOSE w \in {limits[t].window : t \in DOMAIN limits} :
        \A t \in DOMAIN limits : limits[t].window <= w
\* _cleanup_old_clients: now - cutoff
CleanupAge == MaxWindow * 2
\* now - max(requests): the age of the newest timestamp of a key
NewestAge(ages) == CHOOSE a \in {ages[i] : i \in DOMAIN ages} : \A i \in DOMAIN ages : a <= ages[i]
\* _cleanup_old_clients: `not requests or max(requests) < cutoff`
Stale(ages) == ages = <<>> \/ NewestAge(ages) > CleanupAge
\* ImprovedRateLimiter._cleanup_old_clients on the dict
_cleanup_old_clients(history) ==
    [key \in {k \in DOMAIN history : ~Stale(history[k])} |-> history[key]]
\* check_rate_limit: len(self.request_history) > 1000
CleanupDue(history) == Cardinality(DOMAIN history) > CLEANUP_THRESHOLD
\* ImprovedRateLimiter.check_rate_limit on the dict, the client not locked out
CheckRateLimitDict(history, client_addr, operation_type) ==
    LET limit == LimitsOf(operation_type)
        key == Key(client_addr, operation_type)
        kept == IF key \in DOMAIN history THEN Recent(history[key], limit.window) ELSE <<>>
        pruned == [k \in DOMAIN history \cup {key} |-> IF k = key THEN kept ELSE history[k]]
        added == [pruned EXCEPT ![key] = Append(kept, 0)]
    IN
    IF RateExceeded(Len(kept), limit.max)
    THEN [ret |-> "False", request_history |-> pruned, cleaned |-> FALSE]
    ELSE [ret |-> "True",
          request_history |-> IF CleanupDue(added) THEN _cleanup_old_clients(added) ELSE added,
          cleaned |-> CleanupDue(added)]

\* the limiter's dict, the clients that have called it, and its last call
LmState(history, seen, op, ret, cleaned) ==
    [request_history |-> history, seen |-> seen, op |-> op, ret |-> ret, cleaned |-> cleaned]
\* ImprovedRateLimiter.__init__: self.request_history = {}
IdleLm == LmState(<<>>, {}, "none", "None", FALSE)

\* ImprovedRateLimiter.check_rate_limit(client_addr, 'normal'), under self._lock
check_rate_limit_normal(client_addr) ==
    LET r == CheckRateLimitDict(lm.request_history, client_addr, "normal") IN
    lm' = LmState(r.request_history, lm.seen \cup {client_addr}, "check", r.ret, r.cleaned)

\* time.time() moves on by one unit (an age is counted up to CleanupAge + 1, beyond
\* which _cleanup_old_clients cannot tell two ages apart)
TickCleanup ==
    LET history == lm.request_history IN
    lm' = LmState([key \in DOMAIN history |-> Older(history[key], CleanupAge + 1)],
                  lm.seen, "none", "None", FALSE)

NextCleanup ==
    \/ \E c \in ManyClients : check_rate_limit_normal(c)
    \/ TickCleanup

(***************************************************************************)
(* SecureQGISMCPServer: connections and the dispatcher, one step per       *)
(* message that try_read_message hands to _process_message                 *)
(***************************************************************************)
Conns == {1, 2}
MAX_CONNECTIONS == 10
\* message types the peers send ("bogus" has no handler) and the tokens they present
MsgTypes == {"authenticate", "list_layers", "bogus"}
Tokens == {"good", "bad"}
\* SecureQGISMCPServer.command_handlers
command_handlers ==
    {"authenticate", "list_layers", "get_features", "load_layer", "execute_code",
     "get_stats", "ping"}
\* what a handler other than authenticate does: returns, or raises
HandlerOutcomes == {"ok", "SecurityException", "Exception"}

\* _get_operation_type without the authentication class
_get_operation_type_no_authentication(msg_type) ==
    IF msg_type \in {"execute_code", "load_layer"} THEN "expensive"
    ELSE IF msg_type \in {"ping", "get_stats"} THEN "cheap"
    ELSE "normal"

\* SecureQGISMCPServer._get_operation_type
_get_operation_type(msg_type) ==
    IF msg_type = "authenticate" THEN "authentication"
    ELSE IF msg_type \in {"execute_code", "load_layer"} THEN "expensive"
    ELSE IF msg_type \in {"ping", "get_stats"} THEN "cheap"
    ELSE "normal"

ClosedConn == [state |-> "closed", client_id |-> "", authenticated |-> FALSE, auth_ok |-> FALSE]

\* an exception a handler raises: its class and its text
Raised(exc, text) == [exc |-> exc, text |-> text]
NotRaised == Raised("none", "")

\* what the handlers raise: _handle_authenticate a SecurityException, the others a
\* SecurityException of the validators or another exception
RaisedBy(msg_type, outcome) ==
    IF outcome = "ok" THEN NotRaised
    ELSE IF msg_type = "authenticate"
    THEN Raised("SecurityException", "Invalid authentication token")
    ELSE IF outcome = "SecurityException"
    THEN Raised("SecurityException", "Path traversal detected")
    ELSE Raised("RuntimeError", "QGIS not available")

\* the response with the text of the exception for error
DispatchErrorLeaksText(raised) == raised.text

\* _process_message: except SecurityException, except Exception
DispatchError(raised) ==
    IF raised.exc = "SecurityException" THEN "Operation not permitted"
    ELSE "Internal server error"

\* the last step of the server: the message, whether an authenticate had succeeded on
\* the connection, the handler called, what it raised and the response
SrvCall(op, conn, msg_type, auth_ok, handler, success, error) ==
    [op |-> op, conn |-> conn, type |-> msg_type, auth_ok |-> auth_ok,
     handler |-> handler, success |-> success, error |-> error, raised |-> NotRaised]
NoSrvCall == SrvCall("none", 0, "", FALSE, "none", FALSE, "")

\* the connection limit test with > for >=
AtConnectionLimitStrict(count) == count > MAX_CONNECTIONS

\* start: self.active_connections >= self.MAX_CONNECTIONS
AtConnectionLimit(count) == count >= MAX_CONNECTIONS

\* SecureQGISMCPServer.start: one turn of the accept loop, and the first lines of
\* _handle_client in the new thread
accept(conn, client_id) ==
    /\ conns[conn].state = "closed"
    /\ \A other \in DOMAIN conns :
          conns[other].state = "open" => conns[other].client_id # client_id
    /\ IF AtConnectionLimit(active_connections)
       THEN /\ srv_call' = SrvCall("rejected", conn, "", FALSE, "none", FALSE, "")
            /\ UNCHANGED <<conns, active_connections>>
       ELSE /\ active_connections' = active_connections + 1
            /\ conns' = [conns EXCEPT ![conn] =
                            [state |-> "open", client_id |-> client_id,
                             authenticated |-> ~require_auth, auth_ok |-> FALSE]]
            /\ srv_call' = SrvCall("accept", conn, "", FALSE, "none", FALSE, "")
    /\ UNCHANGED <<require_auth, authenticated_clients, limiterVars>>

\* SecureQGISMCPServer.start: a turn of the accept loop whose TLS handshake fails: the
\* connection is counted, then closed and counted out again, and no thread is started
accept_tls_failed(conn, client_id) ==
    /\ conns[conn].state = "closed"
    /\ \A other \in DOMAIN conns :
          conns[other].state = "open" => conns[other].client_id # client_id
    /\ srv_call' = IF AtConnectionLimit(active_connections)
                   THEN SrvCall("rejected", conn, "", FALSE, "none", FALSE, "")
                   ELSE SrvCall("tls_failed", conn, "", FALSE, "none", FALSE, "")
    /\ UNCHANGED <<conns, active_connections, require_auth, authenticated_clients, limiterVars>>

\* the end of one worker taking every connection down with it
handle_client_exit_all(conn) ==
    /\ conns[conn].state = "open"
    /\ conns' = [other \in DOMAIN conns |-> ClosedConn]
    /\ active_connections' = 0
    /\ srv_call' = SrvCall("close", conn, "", FALSE, "none", FALSE, "")
    /\ UNCHANGED <<require_auth, authenticated_clients, limiterVars>>

\* _handle_client: the receive loop ends (peer closed, timeout, socket error), finally
handle_client_exit(conn) ==
    /\ conns[conn].state = "open"
    /\ conns' = [conns EXCEPT ![conn] = ClosedConn]
    /\ active_connections' = active_connections - 1
    /\ srv_call' = SrvCall("close", conn, "", FALSE, "none", FALSE, "")
    /\ UNCHANGED <<require_auth, authenticated_clients, limiterVars>>

\* _handle_client: try_read_message raised ProtocolException
protocol_error(conn) ==
    /\ conns[conn].state = "open"
    /\ srv_call' = SrvCall("protocol_error", conn, "", conns[conn].auth_ok, "none", FALSE,
                           "Invalid request format")
    /\ UNCHANGED <<require_auth, conns, active_connections, authenticated_clients, limiterVars>>

\* AuthenticationManager.api_token, the stored secret
api_token == "good"

\* verify_token that answers True without recording the client
VerifyTokenForgets(authd, client_addr, provided_token) ==
    [ret |-> provided_token = api_token, authenticated_clients |-> authd]

\* AuthenticationManager.verify_token as a function: what it returns and
\* authenticated_clients afterwards (hmac.compare_digest is equality of the two strings)
VerifyToken(authd, client_addr, provided_token) ==
    IF provided_token = api_token
    THEN [ret |-> TRUE, authenticated_clients |-> authd \cup {client_addr}]
    ELSE [ret |-> FALSE, authenticated_clients |-> authd]

\* SecureQGISMCPServer._handle_authenticate as a function: verify_token, then
\* record_successful_auth and the result, or record_failed_auth and SecurityException
HandleAuthenticate(authd, failed, locks, client_id, token) ==
    LET v == VerifyToken(authd, client_id, token)
        f == RecordFailedAuth(failed, locks, client_id)
    IN
    IF v.ret
    THEN [ret |-> "ok", authenticated_clients |-> v.authenticated_clients,
          failed_auth_attempts |-> [failed EXCEPT ![client_id] = <<>>],
          lockouts |-> [locks EXCEPT ![client_id] = NoLockout],
          rl_call |-> RlCall("record_successful_auth", client_id, "", "None",
                            Locked(locks, client_id))]
    ELSE [ret |-> "SecurityException", authenticated_clients |-> v.authenticated_clients,
          failed_auth_attempts |-> f.failed_auth_attempts,
          lockouts |-> f.lockouts,
          rl_call |-> RlCall("record_failed_auth", client_id, "", "None",
                            Locked(locks, client_id))]

\* the authentication test with list_layers let through
AuthRequiredButListLayers(authenticated, msg_type) ==
    require_auth /\ ~authenticated /\ msg_type \notin {"authenticate", "list_layers"}

\* _process_message: self.require_auth and not authenticated and msg_type != 'authenticate'
AuthRequired(authenticated, msg_type) ==
    require_auth /\ ~authenticated /\ msg_type # "authenticate"

\* _process_message and the handler it calls, as a function: the response, the handler
\* invoked, and the limiter's and the authentication manager's fields afterwards
ProcessMessage(client_id, authenticated, msg_type, token, outcome) ==
    LET same == [handler |-> "none", success |-> FALSE, error |-> "", raised |-> NotRaised,
                 request_history |-> request_history,
                 failed_auth_attempts |-> failed_auth_attempts,
                 lockouts |-> lockouts, rl_call |-> rl_call,
                 authenticated_clients |-> authenticated_clients]
        operation_type == _get_operation_type(msg_type)
        r == CheckRateLimit(request_history, lockouts, client_id, operation_type)
        checked == [same EXCEPT !.request_history = r.request_history,
                                !.lockouts = r.lockouts,
                                !.rl_call = RlCall("check", client_id, operation_type, r.ret,
                                                   Locked(lockouts, client_id))]
        h == HandleAuthenticate(authenticated_clients, failed_auth_attempts, r.lockouts,
                                client_id, token)
    IN
    IF AuthRequired(authenticated, msg_type)
    THEN [same EXCEPT !.error = "Authentication required"]
    ELSE IF r.ret = "SecurityException"
    THEN [checked EXCEPT !.error = "Client locked out"]
    ELSE IF r.ret = "False"
    THEN [checked EXCEPT !.error = "Rate limit exceeded. Please slow down."]
    ELSE IF msg_type \notin command_handlers
    THEN [checked EXCEPT !.error = "Unknown command type"]
    ELSE IF msg_type = "authenticate"
    THEN [checked EXCEPT !.handler = msg_type,
                         !.success = h.ret = "ok",
                         !.raised = RaisedBy(msg_type, h.ret),
                         !.error = IF h.ret = "ok" THEN "" ELSE DispatchError(RaisedBy(msg_type, h.ret)),
                         !.authenticated_clients = h.authenticated_clients,
                         !.failed_auth_attempts = h.failed_auth_attempts,
                         !.lockouts = h.lockouts,
                         !.rl_call = h.rl_call]
    ELSE IF outcome = "ok" THEN [checked EXCEPT !.handler = msg_type, !.success = TRUE]
    ELSE [checked EXCEPT !.handler = msg_type,
                         !.raised = RaisedBy(msg_type, outcome),
                         !.error = DispatchError(RaisedBy(msg_type, outcome))]

\* _handle_client: one message from try_read_message through _process_message, the
\* update of `authenticated`, and the response
process_message(conn, msg_type, token, outcome) ==
    LET c == conns[conn]
        p == ProcessMessage(c.client_id, c.authenticated, msg_type, token, outcome)
        now_ok == msg_type = "authenticate" /\ p.success
    IN
    /\ c.state = "open"
    /\ (msg_type = "authenticate" /\ token = "bad") => CanRecordFailure(c.client_id)
    /\ request_history' = p.request_history
    /\ failed_auth_attempts' = p.failed_auth_attempts
    /\ lockouts' = p.lockouts
    /\ rl_call' = p.rl_call
    /\ authenticated_clients' = p.authenticated_clients
    /\ conns' = [conns EXCEPT ![conn].authenticated = c.authenticated \/ now_ok,
                              ![conn].auth_ok = c.auth_ok \/ now_ok]
    /\ srv_call' = [SrvCall("message", conn, msg_type, c.auth_ok, p.handler, p.success,
                            p.error) EXCEPT !.raised = p.raised]
    /\ UNCHANGED <<require_auth, active_connections>>

\* SecureQGISMCPServer.__init__ and AuthenticationManager.__init__
InitServer ==
    /\ require_auth \in BOOLEAN
    /\ conns = [conn \in Conns |-> ClosedConn]
    /\ active_connections = 0
    /\ authenticated_clients = {}
    /\ srv_call = NoSrvCall

IdleServer ==
    /\ require_auth = TRUE
    /\ conns = [conn \in Conns |-> ClosedConn]
    /\ active_connections = 0
    /\ authenticated_clients = {}
    /\ srv_call = NoSrvCall

NextServer ==
    \/ \E conn \in Conns, client_id \in Clients : accept(conn, client_id)
    \/ \E conn \in Conns : handle_client_exit(conn)
    \/ \E conn \in Conns : protocol_error(conn)
    \/ \E conn \in Conns, token \in Tokens : process_message(conn, "authenticate", token, "ok")
    \/ \E conn \in Conns, msg_type \in MsgTypes \ {"authenticate"}, outcome \in HandlerOutcomes :
          process_message(conn, msg_type, "", outcome)
    \/ TickLimiter /\ UNCHANGED serverVars

\* AuthenticationManager and the limiter's records of failures, called directly: the
\* last call on either object is in rl_call, and srv_call tells the handler from the
\* single calls
AuthCall(op, success) == SrvCall(op, 0, "", FALSE, "none", success, "")

\* AuthenticationManager.verify_token
verify_token(client_addr, provided_token) ==
    LET v == VerifyToken(authenticated_clients, client_addr, provided_token) IN
    /\ authenticated_clients' = v.authenticated_clients
    /\ rl_call' = RlCall("verify_token", client_addr, "", IF v.ret THEN "True" ELSE "False",
                       Locked(lockouts, client_addr))
    /\ srv_call' = AuthCall("verify_token", v.ret)
    /\ UNCHANGED <<request_history, failed_auth_attempts, lockouts, require_auth, conns,
                   active_connections>>

\* SecureQGISMCPServer._handle_authenticate
_handle_authenticate(client_id, token) ==
    LET h == HandleAuthenticate(authenticated_clients, failed_auth_attempts, lockouts,
                                client_id, token)
    IN
    /\ token # api_token => CanRecordFailure(client_id)
    /\ authenticated_clients' = h.authenticated_clients
    /\ failed_auth_attempts' = h.failed_auth_attempts
    /\ lockouts' = h.lockouts
    /\ rl_call' = h.rl_call
    /\ srv_call' = AuthCall("_handle_authenticate", h.ret = "ok")
    /\ UNCHANGED <<request_history, require_auth, conns, active_connections>>

\* AuthenticationManager.logout
logout(client_addr) ==
    /\ authenticated_clients' = authenticated_clients \ {client_addr}
    /\ rl_call' = RlCall("logout", client_addr, "", "None", Locked(lockouts, client_addr))
    /\ srv_call' = AuthCall("logout", FALSE)
    /\ UNCHANGED <<request_history, failed_auth_attempts, lockouts, require_auth, conns,
                   active_connections>>

\* AuthenticationManager.clear_all
clear_all ==
    /\ authenticated_clients' = {}
    /\ rl_call' = RlCall("clear_all", "", "", "None", FALSE)
    /\ srv_call' = AuthCall("clear_all", FALSE)
    /\ UNCHANGED <<request_history, failed_auth_attempts, lockouts, require_auth, conns,
                   active_connections>>

NextAuth ==
    \/ \E c \in Clients, token \in Tokens : verify_token(c, token)
    \/ \E c \in Clients, token \in Tokens : _handle_authenticate(c, token)
    \/ \E c \in Clients : logout(c)
    \/ clear_all
    \/ \E c \in Clients :
          record_failed_auth(c) /\ srv_call' = NoSrvCall
             /\ UNCHANGED <<require_auth, conns, active_connections, authenticated_clients>>
    \/ \E c \in Clients :
          record_successful_auth(c) /\ srv_call' = NoSrvCall
             /\ UNCHANGED <<require_auth, conns, active_connections, authenticated_clients>>
    \/ TickLimiter /\ srv_call' = NoSrvCall
          /\ UNCHANGED <<require_auth, conns, active_connections, authenticated_clients>>

\* the accept loop with one more peer than the limit admits, each with its own address
AcceptConns == 1..(MAX_CONNECTIONS + 1)
PeerAddrs == <<"p1", "p2", "p3", "p4", "p5", "p6", "p7", "p8", "p9", "p10", "p11">>

InitAccept ==
    /\ require_auth = TRUE
    /\ conns = [conn \in AcceptConns |-> ClosedConn]
    /\ active_connections = 0
    /\ authenticated_clients = {}
    /\ srv_call = NoSrvCall

NextAccept ==
    \/ \E conn \in AcceptConns : accept(conn, PeerAddrs[conn])
    \/ \E conn \in AcceptConns : accept_tls_failed(conn, PeerAddrs[conn])
    \/ \E conn \in AcceptConns : handle_client_exit(conn)
    \/ \E conn \in AcceptConns : protocol_error(conn)

(***************************************************************************)
(* ProtocolHandler with either serialization format, and the blocking      *)
(* receive_message over a socket                                           *)
(***************************************************************************)
RECURSIVE JsonDigits(_)
\* the decimal digits of a non-negative integer
JsonDigits(n) == IF n < 10 THEN <<48 + n>> ELSE JsonDigits(n \div 10) \o <<48 + (n % 10)>>

RECURSIVE JsonEnc(_), JsonEncEntries(_, _)
\* json.dumps: "string", digits, {"key": value, "key": value}
JsonEnc(val) ==
    CASE val.k = "int" -> JsonDigits(val.v)
      [] val.k = "str" -> <<34>> \o Chars(val.v) \o <<34>>
      [] val.k = "map" -> <<123>> \o JsonEncEntries(val.v, KeysInOrder(val.v)) \o <<125>>
JsonEncEntries(f, ks) ==
    IF ks = <<>> THEN <<>>
    ELSE JsonEnc(S(Head(ks))) \o <<58, 32>> \o JsonEnc(f[Head(ks)])
         \o (IF Tail(ks) = <<>> THEN <<>> ELSE <<44, 32>>) \o JsonEncEntries(f, Tail(ks))

\* json.dumps(data).encode('utf-8')
json_dumps(message) == JsonEnc(M(message))

RECURSIVE SkipWs(_, _)
\* position of the first byte at or after p that is no JSON whitespace
SkipWs(b, p) ==
    IF p <= Len(b) /\ b[p] \in {32, 9, 10, 13} THEN SkipWs(b, p + 1) ELSE p

RECURSIVE StringEnd(_, _)
\* position of the quote that closes the string whose text starts at p; 0 if there is
\* none, or if a backslash or a control character comes first
StringEnd(b, p) ==
    IF p > Len(b) THEN 0
    ELSE IF b[p] = 34 THEN p
    ELSE IF b[p] = 92 \/ b[p] < 32 THEN 0
    ELSE StringEnd(b, p + 1)

RECURSIVE DigitsEnd(_, _)
\* position after the run of digits that starts at p
DigitsEnd(b, p) ==
    IF p <= Len(b) /\ b[p] \in 48..57 THEN DigitsEnd(b, p + 1) ELSE p

RECURSIVE NumberOf(_)
\* the value of a run of digits
NumberOf(ds) ==
    IF ds = <<>> THEN 0 ELSE 10 * NumberOf(SubSeq(ds, 1, Len(ds) - 1)) + (ds[Len(ds)] - 48)

RECURSIVE JsonDec(_, _), JsonDecEntries(_, _)
\* json.loads of the value that starts at position p (after whitespace): a string
\* without escapes, a non-negative integer without leading zero, an object
JsonDec(b, p) ==
    LET q == SkipWs(b, p) IN
    IF q > Len(b) THEN DecFail
    ELSE IF b[q] = 34 THEN
        LET e == StringEnd(b, q + 1) IN
        IF e = 0 THEN DecFail
        ELSE [ok |-> TRUE, val |-> S(StrOf(SubSeq(b, q + 1, e - 1))), next |-> e + 1]
    ELSE IF b[q] \in 48..57 THEN
        LET e == DigitsEnd(b, q) IN
        IF b[q] = 48 /\ e > q + 1 THEN DecFail
        ELSE [ok |-> TRUE, val |-> I(NumberOf(SubSeq(b, q, e - 1))), next |-> e]
    ELSE IF b[q] = 123 THEN
        LET q1 == SkipWs(b, q + 1) IN
        IF q1 <= Len(b) /\ b[q1] = 125
        THEN [ok |-> TRUE, val |-> M(MapOfPairs(<<>>)), next |-> q1 + 1]
        ELSE LET r == JsonDecEntries(b, q1) IN
             IF r.ok THEN [ok |-> TRUE, val |-> M(MapOfPairs(r.val)), next |-> r.next]
             ELSE DecFail
    ELSE DecFail
\* the members of an object from position p up to and including the closing brace
JsonDecEntries(b, p) ==
    LET key == JsonDec(b, p) IN
    IF ~key.ok \/ key.val.k # "str" THEN DecFail
    ELSE LET c == SkipWs(b, key.next) IN
         IF c > Len(b) \/ b[c] # 58 THEN DecFail
         ELSE LET val == JsonDec(b, c + 1) IN
              IF ~val.ok THEN DecFail
              ELSE LET d == SkipWs(b, val.next) IN
                   IF d > Len(b) THEN DecFail
                   ELSE IF b[d] = 125
                   THEN [ok |-> TRUE, val |-> <<<<key.val.v, val.val>>>>, next |-> d + 1]
                   ELSE IF b[d] # 44 THEN DecFail
                   ELSE LET r == JsonDecEntries(b, d + 1) IN
                        IF ~r.ok THEN DecFail
                        ELSE [ok |-> TRUE, val |-> <<<<key.val.v, val.val>>>> \o r.val,
                              next |-> r.next]

\* json.loads(data.decode('utf-8')) and the isinstance(result, dict) test: ok is FALSE
\* where deserialize raises ProtocolException
json_loads(data) ==
    IF \E i \in 1..Len(data) : data[i] >= 128 THEN [ok |-> FALSE, msg |-> <<>>]
    ELSE LET r == JsonDec(data, 1) IN
         IF r.ok /\ SkipWs(data, r.next) = Len(data) + 1 /\ r.val.k = "map"
         THEN [ok |-> TRUE, msg |-> r.val.v]
         ELSE [ok |-> FALSE, msg |-> <<>>]

\* serialize that ignores the format chosen
serialize_as_msgpack_only(use_msgpack, message) == serialize(message)

\* ProtocolHandler.serialize with self.use_msgpack
serialize_as(use_msgpack, message) ==
    IF use_msgpack THEN serialize(message) ELSE json_dumps(message)

\* ProtocolHandler.deserialize with self.use_msgpack
deserialize_as(use_msgpack, data) ==
    IF use_msgpack THEN deserialize(data) ELSE json_loads(data)

\* ProtocolHandler.pack_message with self.use_msgpack
pack_message_as(use_msgpack, message) ==
    LET message_bytes == serialize_as(use_msgpack, message) IN
    IF ~validate_message(message) THEN [ok |-> FALSE, bytes |-> <<>>]
    ELSE IF Len(message_bytes) > MAX_MESSAGE_SIZE THEN [ok |-> FALSE, bytes |-> <<>>]
    ELSE [ok |-> TRUE, bytes |-> PackHeader(Len(message_bytes)) \o message_bytes]

\* socket.recv(min(num_bytes - bytes_received, 8192))
RECV_CHUNK == 8192

\* a ProtocolHandler(use_msgpack) before receive_message is called
IdleRx(use_msgpack) ==
    [use_msgpack |-> use_msgpack, pc |-> "idle", bytes_received |-> 0, num_bytes |-> 0,
     ret |-> "None", how |-> "", msg |-> <<>>]

\* ProtocolHandler.receive_message is called: _recv_exact(socket, HEADER_SIZE) begins
receive_message ==
    /\ rx.pc = "idle"
    /\ rx' = [rx EXCEPT !.pc = "header", !.bytes_received = 0, !.num_bytes = HEADER_SIZE]
    /\ UNCHANGED <<wire, sent>>

\* receive_message after _recv_exact has returned the header
HeaderRead(r, header_data) ==
    LET message_len == UnpackHeader(header_data) IN
    IF message_len > MAX_MESSAGE_SIZE \/ message_len = 0
    THEN [r EXCEPT !.pc = "done", !.ret = "ProtocolException", !.how = "header"]
    ELSE [r EXCEPT !.pc = "payload", !.bytes_received = 0, !.num_bytes = message_len]

\* receive_message after _recv_exact has returned the payload
PayloadRead(r, message_data) ==
    LET d == deserialize_as(r.use_msgpack, message_data) IN
    IF d.ok /\ validate_message(d.msg)
    THEN [r EXCEPT !.pc = "done", !.ret = "message", !.how = "complete", !.msg = d.msg]
    ELSE [r EXCEPT !.pc = "done", !.ret = "ProtocolException", !.how = "complete"]

\* _recv_exact: socket.recv returns k bytes, at most as many as were asked for
recv_chunk(k) ==
    /\ rx.pc \in {"header", "payload"}
    /\ k <= Min(rx.num_bytes - rx.bytes_received, RECV_CHUNK)
    /\ sent' = sent + k
    /\ LET got == rx.bytes_received + k
           data == SubSeq(wire, sent' - got + 1, sent')
       IN
       rx' = IF got < rx.num_bytes THEN [rx EXCEPT !.bytes_received = got]
             ELSE IF rx.pc = "header" THEN HeaderRead(rx, data)
             ELSE PayloadRead(rx, data)
    /\ UNCHANGED wire

\* _recv_exact: socket.recv returns b'', the peer has closed after the last byte of wire
recv_closed ==
    /\ rx.pc \in {"header", "payload"}
    /\ sent = Len(wire)
    /\ rx' = IF rx.bytes_received = 0
             THEN [rx EXCEPT !.pc = "done", !.ret = "None", !.how = "closed"]
             ELSE [rx EXCEPT !.pc = "done", !.ret = "ProtocolException", !.how = "closed"]
    /\ UNCHANGED <<wire, sent>>

\* _recv_exact: socket.recv raises socket.timeout
recv_timeout ==
    /\ rx.pc \in {"header", "payload"}
    /\ rx' = [rx EXCEPT !.pc = "done", !.ret = "socket.timeout", !.how = "timeout"]
    /\ UNCHANGED <<wire, sent>>

\* messages with a data mapping
MsgData == [type |-> S("x"), id |-> I(1), data |-> M([x |-> I(7)])]
MsgEmptyData == [type |-> S("ping"), id |-> I(12), data |-> M(<<>>)]
RxMessages == Messages \cup {MsgData, MsgEmptyData}

Prefixes(w) == {SubSeq(w, 1, n) : n \in 0..Len(w)}

\* what the peer sends before it closes: any prefix of a packed frame in either format,
\* of a frame followed by the first bytes of another, of a zero-length or over-limit
\* header, of a payload that is no message
RxWires ==
    UNION {Prefixes(w) :
           w \in {pack_message_as(f, m).bytes : f \in BOOLEAN, m \in RxMessages}
                 \cup {pack_message(MsgSmall).bytes \o <<0, 0>>,
                       <<0, 0, 0, 0, 1>>,
                       PackHeader(MAX_MESSAGE_SIZE + 1) \o <<1>>,
                       PackHeader(1) \o <<193>>,
                       PackHeader(1) \o <<49>>}}

InitRx ==
    /\ wire \in RxWires
    /\ sent = 0
    /\ rx \in {IdleRx(f) : f \in BOOLEAN}

NextRx ==
    \/ receive_message
    \/ \E k \in 1..(Len(wire) - sent) : recv_chunk(k)
    \/ recv_closed
    \/ recv_timeout

(***************************************************************************)
(* SecureQGISMCPServer._handle_client on one connection, byte by byte: the  *)
(* receive loop, the BufferedProtocolHandler and the dispatcher             *)
(***************************************************************************)
\* SecureQGISMCPServer.MAX_BUFFER_SIZE (scaled like MAX_MESSAGE_SIZE)
MAX_BUFFER_SIZE == 40
\* client_socket.recv(8192)
RECV_SIZE == 8192

\* a frame on the wire: its bytes, and the request it carries if it is well-formed
GoodFrame(m) == [bytes |-> pack_message(m).bytes, ok |-> TRUE, msg |-> m]
BadFrame(bytes) == [bytes |-> bytes, ok |-> FALSE, msg |-> <<>>]

\* what the peer of connection 1 sends, frame after frame
FrameLists ==
    {<<GoodFrame(MsgSmall)>>,
     <<GoodFrame(MsgPing), GoodFrame(MsgSmall)>>,
     <<GoodFrame(MsgSmall), GoodFrame(MsgSmall)>>,
     <<BadFrame(PackHeader(1) \o <<193>>), GoodFrame(MsgPing)>>,
     <<BadFrame(PackHeader(6) \o serialize([type |-> S("x")])), GoodFrame(MsgSmall)>>,
     <<BadFrame(<<0, 0, 0, 0>>), GoodFrame(MsgSmall)>>,
     <<GoodFrame(MsgT26)>>}

RECURSIVE BytesOf(_)
BytesOf(frames) == IF frames = <<>> THEN <<>> ELSE Head(frames).bytes \o BytesOf(Tail(frames))

\* the response _process_message builds or _send_error sends: the id it carries
Response(id, success, error) == [id |-> id, success |-> success, error |-> error]

IdleHc == [pc |-> "none", frames |-> <<>>, out |-> <<>>]

\* _handle_client: finally
HcClosed ==
    /\ conns' = [conns EXCEPT ![1] = ClosedConn]
    /\ active_connections' = active_connections - 1

\* _handle_client: client_socket.recv returns k bytes; feed_data; the buffer size test
hc_recv(k) ==
    /\ hc.pc = "recv"
    /\ k <= RECV_SIZE
    /\ LET data == SubSeq(wire, sent + 1, sent + k) IN
       /\ sent' = sent + k
       /\ IF FeedOverflows(buffer, data)
          THEN \* ProtocolException out of feed_data: except Exception, finally
               /\ hc' = [hc EXCEPT !.pc = "closed"]
               /\ fr_call' = CallRet("feed", "overflow", k, Len(buffer))
               /\ HcClosed
               /\ UNCHANGED buffer
          ELSE /\ buffer' = buffer \o data
               /\ fr_call' = CallRet("feed", "fed", k, Len(buffer))
               /\ IF Len(buffer') > MAX_BUFFER_SIZE
                  THEN /\ hc' = [hc EXCEPT !.pc = "closed",
                                           !.out = Append(@, Response(S("1"), FALSE, "Request too large"))]
                       /\ HcClosed
                  ELSE /\ hc' = [hc EXCEPT !.pc = "parse"]
                       /\ UNCHANGED <<conns, active_connections>>
    /\ UNCHANGED <<wire, expected_message_size, parsed, limiterVars, require_auth,
                   authenticated_clients, srv_call>>

\* _handle_client: recv returns b'' or raises socket.timeout or socket.error once the
\* peer has sent all it sends; break, finally
hc_recv_end ==
    /\ hc.pc = "recv"
    /\ sent = Len(wire)
    /\ hc' = [hc EXCEPT !.pc = "closed"]
    /\ HcClosed
    /\ UNCHANGED <<framerVars, limiterVars, require_auth, authenticated_clients, srv_call>>

\* _handle_client: one turn of the inner loop: try_read_message, and for a message
\* _process_message, the update of `authenticated` and send_message (which may fail)
hc_parse(outcome, send_ok) ==
    /\ hc.pc = "parse"
    /\ LET r == TryRead(buffer, expected_message_size)
           c == conns[1]
           msg_type == r.msg["type"].v
           p == ProcessMessage(c.client_id, c.authenticated, msg_type, "", outcome)
       IN
       /\ buffer' = r.buffer
       /\ expected_message_size' = r.expected
       /\ fr_call' = CallRet("try_read", r.ret, 0, Len(buffer))
       /\ IF r.ret = "None"
          THEN /\ hc' = [hc EXCEPT !.pc = "recv"]
               /\ UNCHANGED <<parsed, limiterVars, conns, active_connections,
                              authenticated_clients, srv_call>>
          ELSE IF r.ret = "ProtocolException"
          THEN /\ hc' = [hc EXCEPT !.pc = "recv",
                                   !.out = Append(@, Response(S("0"), FALSE, "Invalid request format"))]
               /\ srv_call' = SrvCall("protocol_error", 1, "", c.auth_ok, "none", FALSE,
                                      "Invalid request format")
               /\ UNCHANGED <<parsed, limiterVars, conns, active_connections,
                              authenticated_clients>>
          ELSE /\ parsed' = Append(parsed, r.msg)
               /\ request_history' = p.request_history
               /\ failed_auth_attempts' = p.failed_auth_attempts
               /\ lockouts' = p.lockouts
               /\ rl_call' = p.rl_call
               /\ authenticated_clients' = p.authenticated_clients
               /\ srv_call' = [SrvCall("message", 1, msg_type, c.auth_ok, p.handler,
                                       p.success, p.error) EXCEPT !.raised = p.raised]
               /\ IF send_ok
                  THEN /\ hc' = [hc EXCEPT !.out = Append(@, Response(r.msg["id"], p.success, p.error))]
                       /\ UNCHANGED <<conns, active_connections>>
                  ELSE /\ hc' = [hc EXCEPT !.pc = "closed"]
                       /\ HcClosed
    /\ UNCHANGED <<wire, sent, require_auth>>

\* connection 1 has been accepted and _handle_client has begun
InitHc ==
    /\ hc \in {[pc |-> "recv", frames |-> fl, out |-> <<>>] : fl \in FrameLists}
    /\ wire = BytesOf(hc.frames)
    /\ sent = 0
    /\ buffer = <<>>
    /\ expected_message_size = NoSize
    /\ fr_call = CallRet("none", "None", 0, 0)
    /\ parsed = <<>>
    /\ require_auth \in BOOLEAN
    /\ conns = [conn \in Conns |->
                  IF conn = 1
                  THEN [state |-> "open", client_id |-> "c1",
                        authenticated |-> ~require_auth, auth_ok |-> FALSE]
                  ELSE ClosedConn]
    /\ active_connections = 1
    /\ authenticated_clients = {}
    /\ srv_call = NoSrvCall

NextHc ==
    \/ \E k \in 1..(Len(wire) - sent) : hc_recv(k)
    \/ hc_recv_end
    \/ \E outcome \in HandlerOutcomes, send_ok \in BOOLEAN : hc_parse(outcome, send_ok)

(***************************************************************************)
(* ImprovedCodeSandbox: a snippet is the text handed to validate_code with  *)
(* the tree ast.parse makes of it; a node has its class, the name it        *)
(* carries (id, attr, module or alias name), its ctx, and its child nodes   *)
(* in the order ast.iter_child_nodes gives them                             *)
(***************************************************************************)
\* ImprovedCodeSandbox.ALLOWED_NODES
ALLOWED_NODES ==
    {"Module", "Expr", "Assign", "AnnAssign", "AugAssign",
     "Name", "Constant", "Num", "Str", "Bytes",
     "List", "Tuple", "Set", "Dict",
     "BinOp", "UnaryOp", "Compare", "BoolOp",
     "IfExp", "If", "For", "While", "Break", "Continue",
     "FunctionDef", "Return", "Pass",
     "Call", "Attribute", "Subscript", "Index", "Slice",
     "ListComp", "DictComp", "SetComp", "GeneratorExp",
     "comprehension",
     "Load", "Store", "Del",
     "Add", "Sub", "Mult", "Div", "FloorDiv", "Mod", "Pow",
     "LShift", "RShift", "BitOr", "BitXor", "BitAnd",
     "And", "Or", "Not", "Invert", "UAdd", "USub",
     "Eq", "NotEq", "Lt", "LtE", "Gt", "GtE",
     "Is", "IsNot", "In", "NotIn",
     "arg", "arguments", "keyword"}

\* ImprovedCodeSandbox.ALLOWED_MODULES
ALLOWED_MODULES ==
    ("qgis.core" :>
        {"QgsProject", "QgsVectorLayer", "QgsRasterLayer", "QgsFeature",
         "QgsGeometry", "QgsPoint", "QgsPointXY", "QgsRectangle",
         "QgsCoordinateReferenceSystem", "QgsCoordinateTransform",
         "QgsField", "QgsFields", "QgsExpression", "QgsFeatureRequest",
         "QgsWkbTypes", "QgsLayerTreeLayer", "QgsLayerTreeGroup",
         "QgsMapLayer", "QgsVectorFileWriter", "QgsRasterFileWriter"})
    @@ ("qgis.utils" :> {"iface"})
    @@ ("PyQt5.QtCore" :> {"QVariant", "Qt", "QDateTime", "QDate", "QTime"})
    @@ ("PyQt5.QtGui" :> {"QColor"})

\* ImprovedCodeSandbox.DANGEROUS_ATTRS
DANGEROUS_ATTRS ==
    {"__builtins__", "__globals__", "__locals__", "__dict__",
     "__class__", "__bases__", "__subclasses__", "__import__",
     "__code__", "__closure__", "__func__", "__self__",
     "func_globals", "func_code", "gi_frame", "gi_code"}

\* ImprovedCodeSandbox.DANGEROUS_FUNCTIONS
DANGEROUS_FUNCTIONS ==
    {"eval", "exec", "compile", "__import__",
     "open", "input", "exit", "quit",
     "help", "vars", "dir", "globals", "locals",
     "getattr", "setattr", "delattr", "hasattr",
     "breakpoint", "memoryview", "bytearray"}

\* ImprovedCodeSandbox.__init__: max_code_length
max_code_length == 102400

\* the nodes of ast
Node(kind, name, ctx, children) ==
    [kind |-> kind, name |-> name, ctx |-> ctx, children |-> children]
Leaf(kind) == Node(kind, "", "", <<>>)
Name(id, ctx) == Node("Name", id, ctx, <<Leaf(ctx)>>)
Constant_ == Leaf("Constant")
Attribute(value, attr) == Node("Attribute", attr, "Load", <<value, Leaf("Load")>>)
Call(func, args) == Node("Call", "", "", <<func>> \o args)
List_(elts) == Node("List", "", "Load", elts \o <<Leaf("Load")>>)
Expr(value) == Node("Expr", "", "", <<value>>)
Assign(target, value) == Node("Assign", "", "", <<target, value>>)
alias(name) == Node("alias", name, "", <<>>)
Import(names) == Node("Import", "", "", [i \in DOMAIN names |-> alias(names[i])])
ImportFrom(module, names) ==
    Node("ImportFrom", module, "", [i \in DOMAIN names |-> alias(names[i])])
Module(body) == Node("Module", "", "", body)

\* a snippet: its text, len(code), and ast.parse(code) (parses FALSE: SyntaxError)
Snippet(src, len, tree) == [src |-> src, len |-> len, parses |-> TRUE, tree |-> tree]
Unparsable(src, len) == [src |-> src, len |-> len, parses |-> FALSE, tree |-> Leaf("Module")]

\* the snippets the callers hand to the sandbox
Snippets ==
    {Snippet("from qgis.core import QgsProject", 32,
             Module(<<ImportFrom("qgis.core", <<"QgsProject">>)>>)),
     Snippet("from qgis.core import QgsProject, QgsFeature", 44,
             Module(<<ImportFrom("qgis.core", <<"QgsProject", "QgsFeature">>)>>)),
     Snippet("from qgis.utils import iface; x = 1", 35,
             Module(<<ImportFrom("qgis.utils", <<"iface">>),
                      Assign(Name("x", "Store"), Constant_)>>)),
     Snippet("from qgis.core import *", 23,
             Module(<<ImportFrom("qgis.core", <<"*">>)>>)),
     Snippet("from qgis.core import QgsApplication", 36,
             Module(<<ImportFrom("qgis.core", <<"QgsApplication">>)>>)),
     Snippet("import qgis.core", 16, Module(<<Import(<<"qgis.core">>)>>)),
     Snippet("import os", 9, Module(<<Import(<<"os">>)>>)),
     Snippet("from os import system", 21, Module(<<ImportFrom("os", <<"system">>)>>)),
     Snippet("x = 1; import os", 16,
             Module(<<Assign(Name("x", "Store"), Constant_), Import(<<"os">>)>>)),
     Snippet("eval('1')", 9, Module(<<Expr(Call(Name("eval", "Load"), <<Constant_>>))>>)),
     Snippet("[].__class__.__bases__", 22,
             Module(<<Expr(Attribute(Attribute(List_(<<>>), "__class__"), "__bases__"))>>)),
     Snippet("x = object.__dict__", 19,
             Module(<<Assign(Name("x", "Store"),
                             Attribute(Name("object", "Load"), "__dict__"))>>)),
     Snippet("x = sum([1,2,3])", 16,
             Module(<<Assign(Name("x", "Store"),
                             Call(Name("sum", "Load"),
                                  <<List_(<<Constant_, Constant_, Constant_>>)>>))>>)),
     Snippet("result = len([1])", 17,
             Module(<<Assign(Name("result", "Store"),
                             Call(Name("len", "Load"), <<List_(<<Constant_>>)>>))>>)),
     Snippet("x = [len([open('a')])]", 22,
             Module(<<Assign(Name("x", "Store"),
                             List_(<<Call(Name("len", "Load"),
                                          <<List_(<<Call(Name("open", "Load"),
                                                         <<Constant_>>)>>)>>)>>))>>)),
     Snippet("obj.getattr(1)", 14,
             Module(<<Expr(Call(Attribute(Name("obj", "Load"), "getattr"), <<Constant_>>))>>)),
     Snippet("f = exec", 8, Module(<<Assign(Name("f", "Store"), Name("exec", "Load"))>>)),
     Snippet("eval = 1", 8, Module(<<Assign(Name("eval", "Store"), Constant_)>>)),
     Snippet("try: x = 1\nexcept: pass", 23,
             Module(<<Node("Try", "", "",
                           <<Assign(Name("x", "Store"), Constant_),
                             Node("ExceptHandler", "", "", <<Leaf("Pass")>>)>>)>>)),
     Unparsable("x = (", 5),
     Snippet("x = 1 (20000 lines of it)", 120000,
             Module(<<Assign(Name("x", "Store"), Constant_)>>))}

SnippetOf(src) == CHOOSE s \in Snippets : s.src = src

\* ast.walk: todo = deque([node]); node = todo.popleft(); todo.extend(iter_child_nodes(node))
RECURSIVE Walk(_)
Walk(todo) ==
    IF todo = <<>> THEN <<>>
    ELSE <<Head(todo)>> \o Walk(Tail(todo) \o Head(todo).children)

\* ImprovedCodeSandbox._validate_import: the message of the SecurityException, "" for none
RECURSIVE ImportFromNames(_, _)
ImportFromNames(module, names) ==
    IF names = <<>> THEN ""
    ELSE IF Head(names).name = "*" THEN "Wildcard imports not allowed"
    ELSE IF Head(names).name \notin ALLOWED_MODULES[module] THEN "Import not allowed"
    ELSE ImportFromNames(module, Tail(names))

_validate_import(node) ==
    IF node.kind = "Import"
    THEN IF \E i \in DOMAIN node.children : node.children[i].name \notin DOMAIN ALLOWED_MODULES
         THEN "Import not allowed" ELSE ""
    ELSE IF node.name \notin DOMAIN ALLOWED_MODULES THEN "Import not allowed"
    ELSE ImportFromNames(node.name, node.children)

\* ImprovedCodeSandbox._validate_call
_validate_call(node) ==
    LET func == node.children[1] IN
    IF func.kind = "Name" /\ func.name \in DANGEROUS_FUNCTIONS THEN "Dangerous function call"
    ELSE IF func.kind = "Attribute" /\ func.name \in DANGEROUS_FUNCTIONS
    THEN "Dangerous method call"
    ELSE ""

\* _validate_attribute that lets every attribute through
_validate_attribute_never(node) == ""

\* ImprovedCodeSandbox._validate_attribute
_validate_attribute(node) ==
    IF node.name \in DANGEROUS_ATTRS THEN "Dangerous attribute access" ELSE ""

\* ImprovedCodeSandbox._validate_name
_validate_name(node) ==
    IF node.name \in DANGEROUS_FUNCTIONS /\ node.ctx = "Load"
    THEN "Access to dangerous name" ELSE ""

\* validate_code: node_type not in self.ALLOWED_NODES is refused
NodeAllowed(kind) == kind \in ALLOWED_NODES

\* validate_code: the body of the loop over ast.walk(tree) for one node
ValidateNode(node) ==
    IF ~NodeAllowed(node.kind) THEN "Disallowed operation"
    ELSE IF node.kind \in {"Import", "ImportFrom"} THEN _validate_import(node)
    ELSE IF node.kind = "Call" THEN _validate_call(node)
    ELSE IF node.kind = "Attribute" THEN _validate_attribute(node)
    ELSE IF node.kind = "Name" THEN _validate_name(node)
    ELSE ""

RECURSIVE FirstViolation(_)
FirstViolation(nodes) ==
    IF nodes = <<>> THEN "None"
    ELSE IF ValidateNode(Head(nodes)) # "" THEN ValidateNode(Head(nodes))
    ELSE FirstViolation(Tail(nodes))

\* ImprovedCodeSandbox.validate_code as a function: "None" when it returns, else the
\* message of the SecurityException it raises
ValidateCode(snippet) ==
    IF snippet.len > max_code_length THEN "Code exceeds maximum length"
    ELSE IF ~snippet.parses THEN "Invalid Python syntax"
    ELSE FirstViolation(Walk(<<snippet.tree>>))

\* how signal.signal(SIGALRM, ...) goes where execute_with_timeout runs: the alarm is
\* set (main thread), ValueError (any other thread), or there is no SIGALRM
Alarms == {"set", "ValueError", "absent"}
\* how exec(code, namespace) ends
ExecOutcomes == {"returned", "raised", "TimeoutError"}

\* execute_with_timeout that runs the code without validating it
ExecuteWithTimeoutUnchecked(snippet, alarm, outcome) ==
    IF alarm = "ValueError"
    THEN [ret |-> "ValueError", checked |-> "", executed |-> ""]
    ELSE [ret |-> outcome, checked |-> "", executed |-> snippet.src]

\* ImprovedCodeSandbox.execute_with_timeout as a function: what it returns or raises,
\* the snippet whose validation succeeded and the snippet handed to exec
ExecuteWithTimeout(snippet, alarm, outcome) ==
    IF ValidateCode(snippet) # "None"
    THEN [ret |-> ValidateCode(snippet), checked |-> "", executed |-> ""]
    ELSE IF alarm = "ValueError"
    THEN [ret |-> "ValueError", checked |-> snippet.src, executed |-> ""]
    ELSE [ret |-> outcome, checked |-> snippet.src, executed |-> snippet.src]

\* the last call on the sandbox: the snippet, the result, the snippet validated last and
\* the snippet run, and the snippet of an asynchronous operation that has not run yet
SbCall(op, src, ret, checked, executed, pending) ==
    [op |-> op, src |-> src, ret |-> ret, checked |-> checked, executed |-> executed,
     pending |-> pending]
IdleSb == SbCall("none", "", "None", "", "", "")

\* ImprovedCodeSandbox.validate_code
validate_code(snippet) ==
    sb' = SbCall("validate_code", snippet.src, ValidateCode(snippet),
                 IF ValidateCode(snippet) = "None" THEN snippet.src ELSE "", "", sb.pending)

\* ImprovedCodeSandbox.execute_with_timeout
execute_with_timeout(snippet, alarm, outcome) ==
    LET e == ExecuteWithTimeout(snippet, alarm, outcome) IN
    /\ outcome = "TimeoutError" => alarm = "set"
    /\ sb' = SbCall("execute_with_timeout", snippet.src, e.ret, e.checked, e.executed,
                    sb.pending)

\* SecureQGISMCPServer._handle_execute_code: validate_code, then execute_with_timeout
_handle_execute_code(snippet, alarm, outcome) ==
    LET e == ExecuteWithTimeout(snippet, alarm, outcome) IN
    /\ outcome = "TimeoutError" => alarm = "set"
    /\ sb' = IF ValidateCode(snippet) # "None"
             THEN SbCall("_handle_execute_code", snippet.src, ValidateCode(snippet), "", "",
                         sb.pending)
             ELSE SbCall("_handle_execute_code", snippet.src, e.ret, e.checked, e.executed,
                         sb.pending)

\* OptimizedQGISMCPServer._handle_execute_code_async: validate_code, then start_operation
\* with async_handler (started TRUE), unless start_operation refuses
_handle_execute_code_async(snippet, started) ==
    /\ sb.pending = ""
    /\ sb' = IF ValidateCode(snippet) # "None"
             THEN SbCall("_handle_execute_code_async", snippet.src, ValidateCode(snippet),
                         "", "", "")
             ELSE SbCall("_handle_execute_code_async", snippet.src,
                         IF started THEN "started" ELSE "RuntimeError", snippet.src, "",
                         IF started THEN snippet.src ELSE "")

\* async_handler of _handle_execute_code_async in the operation's thread (where
\* signal.signal cannot set the alarm): the progress callback, which may raise, then
\* execute_with_timeout
async_handler(progress_ok, alarm, outcome) ==
    LET snippet == SnippetOf(sb.pending)
        e == ExecuteWithTimeout(snippet, alarm, outcome)
    IN
    /\ sb.pending # ""
    /\ alarm # "set"
    /\ outcome # "TimeoutError"
    /\ sb' = IF progress_ok
             THEN SbCall("async_handler", snippet.src, e.ret, e.checked, e.executed, "")
             ELSE SbCall("async_handler", snippet.src, "InterruptedError", "", "", "")

InitSandbox == sb = IdleSb

NextSandbox ==
    \/ \E snippet \in Snippets : validate_code(snippet)
    \/ \E snippet \in Snippets, alarm \in Alarms, outcome \in ExecOutcomes :
          execute_with_timeout(snippet, alarm, outcome)
    \/ \E snippet \in Snippets, alarm \in Alarms, outcome \in ExecOutcomes :
          _handle_execute_code(snippet, alarm, outcome)
    \/ \E snippet \in Snippets, started \in BOOLEAN : _handle_execute_code_async(snippet, started)
    \/ \E progress_ok \in BOOLEAN, alarm \in Alarms, outcome \in ExecOutcomes :
          async_handler(progress_ok, alarm, outcome)

(***************************************************************************)
(* SecureQGISMCPClient and its ConnectionPool: the threads that call        *)
(* send_request, the sockets the pool has created, and for each socket      *)
(* whether an authenticate exchange has succeeded on it                     *)
(***************************************************************************)
\* the threads that call send_request
Threads == {1, 2}
\* ConnectionPool(max_connections=...) (source default 5)
max_connections == 2
\* SecureQGISMCPClient(max_retries=...) (source default 3)
max_retries == 2
\* sockets the pool creates in a run of the model
MaxSocks == 4

\* a socket _create_connection has returned
NewSock == [open |-> TRUE, authed |-> FALSE]
\* a thread that is not inside send_request
IdleThread == [pc |-> "idle", conn |-> 0, attempt |-> 0, ret |-> "None"]
\* the last message a thread has sent on a socket
Sent(kind, conn, authed) == [kind |-> kind, conn |-> conn, authed |-> authed]

\* ConnectionPool.__init__ and SecureQGISMCPClient.__init__ (auto_authenticate, a token)
IdleCl ==
    [pool |-> <<>>, active |-> 0, lock |-> 0, authenticated |-> FALSE,
     socks |-> <<>>, th |-> [t \in Threads |-> IdleThread], sent |-> Sent("none", 0, FALSE)]

\* conn.close()
Closed(socks, conn) == [socks EXCEPT ![conn].open = FALSE]

\* send_request is called: the first turn of its retry loop
send_request(t) ==
    /\ cl.th[t].pc = "idle"
    /\ cl' = [cl EXCEPT !.th[t] = [pc |-> "get", conn |-> 0, attempt |-> 0, ret |-> "None"]]

\* get_connection: self._pool.get_nowait() returns a pooled socket
get_pooled(t) ==
    /\ cl.th[t].pc = "get"
    /\ cl.pool # <<>>
    /\ cl' = [cl EXCEPT !.pool = Tail(cl.pool),
                        !.th[t].conn = Head(cl.pool),
                        !.th[t].pc = "check"]

\* get_connection: the pool is empty; under self._lock either the counter is raised
\* and _create_connection called (it returns a socket or raises ClientException), or,
\* at the limit, the thread goes to wait in self._pool.get(timeout) with the lock held
get_empty(t, created) ==
    /\ cl.th[t].pc = "get"
    /\ cl.pool = <<>>
    /\ cl.lock = 0
    /\ IF cl.active < max_connections
       THEN /\ Len(cl.socks) < MaxSocks
            /\ cl' = IF created
                     THEN [cl EXCEPT !.active = @ + 1,
                                     !.socks = Append(@, NewSock),
                                     !.th[t].conn = Len(cl.socks) + 1,
                                     !.th[t].pc = "check"]
                     ELSE [cl EXCEPT !.active = @ + 1,
                                     !.th[t].pc = "failed"]
       ELSE /\ created
            /\ cl' = [cl EXCEPT !.lock = t, !.th[t].pc = "wait"]

\* get_connection: self._pool.get(timeout) returns a socket another thread put back
wait_got(t) ==
    /\ cl.th[t].pc = "wait"
    /\ cl.pool # <<>>
    /\ cl' = [cl EXCEPT !.pool = Tail(cl.pool),
                        !.lock = 0,
                        !.th[t].conn = Head(cl.pool),
                        !.th[t].pc = "check"]

\* get_connection: self._pool.get(timeout) raises queue.Empty, which no except clause
\* of send_request names
wait_timeout(t) ==
    /\ cl.th[t].pc = "wait"
    /\ cl.pool = <<>>
    /\ cl' = [cl EXCEPT !.lock = 0,
                        !.th[t] = [IdleThread EXCEPT !.ret = "Empty"]]

\* get_connection: _is_connection_alive(conn); a socket found not alive is closed and
\* replaced by a new one (the counter is left alone); if that fails the except clause
\* closes the old socket again and the exception goes on
check_alive(t, alive, created) ==
    /\ cl.th[t].pc = "check"
    /\ LET conn == cl.th[t].conn IN
       IF alive
       THEN /\ created
            /\ cl' = [cl EXCEPT !.th[t].pc = "auth"]
       ELSE IF created
       THEN /\ Len(cl.socks) < MaxSocks
            /\ cl' = [cl EXCEPT !.socks = Append(Closed(@, conn), NewSock),
                                !.th[t].conn = Len(cl.socks) + 1,
                                !.th[t].pc = "auth"]
       ELSE cl' = [cl EXCEPT !.socks = Closed(@, conn),
                             !.th[t].conn = 0,
                             !.th[t].pc = "failed"]

\* _ensure_authenticated(conn), under self._auth_lock: nothing is sent when
\* self.authenticated is set; otherwise the authenticate exchange, which sets the flag
\* when it succeeds and raises ClientException when it fails (get_connection then
\* closes the socket)
_ensure_authenticated(t, success) ==
    /\ cl.th[t].pc = "auth"
    /\ LET conn == cl.th[t].conn IN
       IF cl.authenticated
       THEN /\ success
            /\ cl' = [cl EXCEPT !.th[t].pc = "send"]
       ELSE IF success
       THEN cl' = [cl EXCEPT !.authenticated = TRUE,
                             !.socks[conn].authed = TRUE,
                             !.sent = Sent("authenticate", conn, FALSE),
                             !.th[t].pc = "send"]
       ELSE cl' = [cl EXCEPT !.socks = Closed(@, conn),
                             !.sent = Sent("authenticate", conn, FALSE),
                             !.th[t].conn = 0,
                             !.th[t].pc = "failed"]

\* get_connection, finally: self._pool.put_nowait(conn), or with the pool full
\* conn.close() and the counter lowered
PutBack(c, conn) ==
    IF Len(c.pool) < max_connections
    THEN [c EXCEPT !.pool = Append(@, conn)]
    ELSE [c EXCEPT !.socks = Closed(@, conn), !.active = @ - 1]

\* send_request: the request is sent on conn and the response read; with a successful
\* response the socket goes back to the pool and send_request returns, otherwise
\* ClientException (or a socket or protocol error) is raised and get_connection closes
\* the socket
request(t, success) ==
    /\ cl.th[t].pc = "send"
    /\ LET conn == cl.th[t].conn
           msg == Sent("request", conn, cl.socks[conn].authed)
       IN
       IF success
       THEN /\ Len(cl.pool) >= max_connections => cl.lock = 0
            /\ cl' = [PutBack(cl, conn) EXCEPT !.sent = msg,
                                               !.th[t] = [IdleThread EXCEPT !.ret = "data"]]
       ELSE cl' = [cl EXCEPT !.socks = Closed(@, conn),
                             !.sent = msg,
                             !.th[t].conn = 0,
                             !.th[t].pc = "failed"]

\* send_request, except (socket.error, ProtocolException, ClientException): the flag
\* is reset, and the loop goes round again or gives up
retry(t) ==
    /\ cl.th[t].pc = "failed"
    /\ cl' = IF cl.th[t].attempt < max_retries - 1
             THEN [cl EXCEPT !.authenticated = FALSE,
                             !.th[t].attempt = @ + 1,
                             !.th[t].pc = "get"]
             ELSE [cl EXCEPT !.authenticated = FALSE,
                             !.th[t] = [IdleThread EXCEPT !.ret = "ClientException"]]

\* ConnectionPool.close_all: the pooled sockets are closed and the counter set to 0
close_all ==
    /\ cl.lock = 0
    /\ cl' = [cl EXCEPT !.socks = [i \in DOMAIN cl.socks |->
                                     IF \E j \in DOMAIN cl.pool : cl.pool[j] = i
                                     THEN [cl.socks[i] EXCEPT !.open = FALSE]
                                     ELSE cl.socks[i]],
                        !.pool = <<>>,
                        !.active = 0]

NextClient ==
    \/ \E t \in Threads : send_request(t)
    \/ \E t \in Threads : get_pooled(t)
    \/ \E t \in Threads, created \in BOOLEAN : get_empty(t, created)
    \/ \E t \in Threads : wait_got(t)
    \/ \E t \in Threads : wait_timeout(t)
    \/ \E t \in Threads, alive \in BOOLEAN, created \in BOOLEAN : check_alive(t, alive, created)
    \/ \E t \in Threads, success \in BOOLEAN : _ensure_authenticated(t, success)
    \/ \E t \in Threads, success \in BOOLEAN : request(t, success)
    \/ \E t \in Threads : retry(t)
    \/ close_all

(***************************************************************************)
(* Specifications                                                          *)
(***************************************************************************)
Init ==
    /\ InitAsync
    /\ IdleFramer
    /\ InitLimiter
    /\ IdleServer
    /\ rx = IdleRx(TRUE)
    /\ hc = IdleHc
    /\ sb = IdleSb
    /\ lm = IdleLm
    /\ cl = IdleCl

SpecAsync == Init /\ [][NextAsync /\ UNCHANGED <<framerVars, limiterVars, serverVars, rx, hc, sb, lm, cl>>]_vars

FramerInit ==
    /\ InitAsync
    /\ InitFramer
    /\ InitLimiter
    /\ IdleServer
    /\ rx = IdleRx(TRUE)
    /\ hc = IdleHc
    /\ sb = IdleSb
    /\ lm = IdleLm
    /\ cl = IdleCl

SpecFramer == FramerInit /\ [][NextFramer /\ UNCHANGED <<asyncVars, limiterVars, serverVars, rx, hc, sb, lm, cl>>]_vars

SpecLimiter == Init /\ [][NextLimiter /\ UNCHANGED <<asyncVars, framerVars, serverVars, rx, hc, sb, lm, cl>>]_vars

ServerInit ==
    /\ InitAsync
    /\ IdleFramer
    /\ InitLimiter
    /\ InitServer
    /\ rx = IdleRx(TRUE)
    /\ hc = IdleHc
    /\ sb = IdleSb
    /\ lm = IdleLm
    /\ cl = IdleCl

RxInit ==
    /\ InitAsync
    /\ InitRx
    /\ buffer = <<>>
    /\ expected_message_size = NoSize
    /\ fr_call = CallRet("none", "None", 0, 0)
    /\ parsed = <<>>
    /\ InitLimiter
    /\ IdleServer
    /\ hc = IdleHc
    /\ sb = IdleSb
    /\ lm = IdleLm
    /\ cl = IdleCl

SpecRx ==
    RxInit /\ [][NextRx /\ UNCHANGED <<asyncVars, buffer, expected_message_size, fr_call, parsed,
                                     limiterVars, serverVars, hc, sb, lm, cl>>]_vars

HcInit ==
    /\ InitAsync
    /\ InitLimiter
    /\ InitHc
    /\ rx = IdleRx(TRUE)
    /\ sb = IdleSb
    /\ lm = IdleLm
    /\ cl = IdleCl

SpecHc == HcInit /\ [][NextHc /\ UNCHANGED <<asyncVars, rx, sb, lm, cl>>]_vars

\* recv hands over the bytes the peer has sent; whether the peer closes or falls silent
\* until the socket times out is its own
HcOthers == <<asyncVars, rx, sb, lm, cl>>
SpecHcLive ==
    /\ HcInit
    /\ [][NextHc /\ UNCHANGED HcOthers]_vars
    /\ WF_vars((\E k \in 1..(Len(wire) - sent) : hc_recv(k)) /\ UNCHANGED HcOthers)

AcceptInit ==
    /\ InitAsync
    /\ IdleFramer
    /\ InitLimiter
    /\ InitAccept
    /\ rx = IdleRx(TRUE)
    /\ hc = IdleHc
    /\ sb = IdleSb
    /\ lm = IdleLm
    /\ cl = IdleCl

SpecAuth == ServerInit /\ [][NextAuth /\ UNCHANGED <<asyncVars, framerVars, rx, hc, sb, lm, cl>>]_vars

SpecAccept == AcceptInit /\ [][NextAccept /\ UNCHANGED <<asyncVars, framerVars, rx, hc, sb, lm, cl>>]_vars

\* the threads of the executors run and time passes; nothing in the program calls
\* cleanup_completed, get_status, cancel_operation or start_operation by itself
AsyncOthers == <<framerVars, limiterVars, serverVars, rx, hc, sb, lm, cl>>
ThreadSteps ==
    \E e \in ExecIds : run_begin(e) \/ run_check_cancelled(e) \/ run_finish(e) \/ cancel_finish(e)

SpecAsyncLive ==
    /\ Init
    /\ [][NextAsync /\ UNCHANGED AsyncOthers]_vars
    /\ WF_vars(ThreadSteps /\ UNCHANGED AsyncOthers)
    /\ WF_vars(TickAsync /\ UNCHANGED AsyncOthers)

SpecSandbox ==
    Init /\ [][NextSandbox /\ UNCHANGED <<asyncVars, framerVars, limiterVars, serverVars,
                                          rx, hc, lm, cl>>]_vars

SpecCleanup ==
    Init /\ [][NextCleanup /\ UNCHANGED <<asyncVars, framerVars, limiterVars, serverVars,
                                          rx, hc, sb, cl>>]_vars

SpecClient ==
    Init /\ [][NextClient /\ UNCHANGED <<asyncVars, framerVars, limiterVars, serverVars,
                                         rx, hc, sb, lm>>]_vars

SpecServer == ServerInit /\ [][NextServer /\ UNCHANGED <<asyncVars, framerVars, rx, hc, sb, lm, cl>>]_vars

(***************************************************************************)
(* Claims about the framer                                                 *)
(***************************************************************************)
\* C9 (as claimed): when the wire is one packed frame, no feed is refused, try_parse
\* returns nothing and raises nothing before the last byte has arrived, and once the
\* last byte is in and try_parse has been called it has returned exactly the packed message
C9_FragmentationTolerance ==
    \A m \in Messages :
        (pack_message(m).ok /\ wire = pack_message(m).bytes) =>
            /\ fr_call.ret \notin {"overflow", "ProtocolException"}
            /\ sent < Len(wire) => parsed = <<>>
            /\ (sent = Len(wire) /\ fr_call.op = "try_read") => parsed = <<m>>
            /\ Len(parsed) <= 1

\* C10: feed_data raises exactly when buffered plus offered bytes exceed the maximum and
\* then takes none of them, otherwise it appends them all; the buffer never holds more
\* than the maximum
C10_FeedBounded ==
    /\ Len(buffer) <= MAX_MESSAGE_SIZE
    /\ fr_call.op = "feed" =>
          /\ fr_call.ret = "overflow" <=> fr_call.before + fr_call.k > MAX_MESSAGE_SIZE
          /\ fr_call.ret = "overflow" => Len(buffer) = fr_call.before
          /\ fr_call.ret = "fed" => Len(buffer) = fr_call.before + fr_call.k
    /\ \E skipped \in 0..sent : buffer = SubSeq(wire, skipped + 1, sent)

\* C10 witness: a feed was refused although the offered bytes alone fit, with bytes of
\* earlier feeds in the buffer
C10_Witness ==
    /\ fr_call.op = "feed" /\ fr_call.ret = "overflow"
    /\ fr_call.k <= MAX_MESSAGE_SIZE /\ Len(buffer) > 0

(***************************************************************************)
(* Claims about the rate limiter                                           *)
(***************************************************************************)
\* failures of the client recorded within the last FAILED_WINDOW, none of them before
\* its last successful authentication
RecentFailures(c) == Len(Recent(failed_auth_attempts[c], FAILED_WINDOW))

\* accepted requests of the key within the last window of its class
AcceptedWithin(c, t) == Len(Recent(request_history[Key(c, t)], LimitsOf(t).window))

\* C2: a record_failed_auth that makes 5 or more failures within the hour leaves a
\* lockout in force, one that makes fewer leaves the lockouts as they were; and every
\* check_rate_limit of a client whose lockout has not expired raises, whatever the class
C2_LockoutAfterFiveFailures ==
    [][\A c \in Clients :
          /\ (rl_call'.op = "record_failed_auth" /\ rl_call'.client = c) =>
                IF RecentFailures(c) + 1 >= 5
                THEN lockouts'[c] > 0
                ELSE lockouts'[c] = lockouts[c]
          /\ (rl_call'.op = "check" /\ rl_call'.client = c /\ lockouts[c] > 0) =>
                /\ rl_call'.ret = "SecurityException"
                /\ lockouts'[c] = lockouts[c]
          /\ (rl_call'.op = "check" /\ rl_call'.client = c /\ lockouts[c] <= 0) =>
                rl_call'.ret # "SecurityException"
      ]_vars

\* C2 witness: with exactly 5 failures on record, a check of class normal has raised
C2_Witness ==
    \E c \in Clients :
        /\ rl_call = RlCall("check", c, "normal", "SecurityException", TRUE)
        /\ RecentFailures(c) = 5
        /\ lockouts[c] > 0

\* C3: a check_rate_limit that returns, returns True exactly when fewer than max_count
\* accepted requests of the client and class lie within the last window, and then
\* counts the request; no key ever has more than max_count accepted requests within
\* its window
C3_BudgetPerWindow ==
    [][\A c \in Clients, t \in OpTypes :
          /\ (rl_call'.op = "check" /\ rl_call'.client = c /\ rl_call'.optype = t
                /\ rl_call'.ret # "SecurityException") =>
                /\ rl_call'.ret = "True" <=> AcceptedWithin(c, t) < LimitsOf(t).max
                /\ rl_call'.ret = "True" => AcceptedWithin(c, t)' = AcceptedWithin(c, t) + 1
                /\ rl_call'.ret = "False" => AcceptedWithin(c, t)' = AcceptedWithin(c, t)
          /\ AcceptedWithin(c, t)' <= LimitsOf(t).max
      ]_vars

\* C3 witness: a request of class normal is accepted again after the window of the
\* requests that had used up the budget has elapsed
C3_Witness ==
    \E c \in Clients :
        /\ rl_call = RlCall("check", c, "normal", "True", FALSE)
        /\ Len(request_history[Key(c, "normal")]) = 1
        /\ \E t \in OpTypes \ {"normal"} :
              /\ AcceptedWithin(c, t) = 0
              /\ Len(request_history[Key(c, t)]) = LimitsOf(t).max

(***************************************************************************)
(* Claims about the dispatcher                                             *)
(***************************************************************************)
\* C1: with authentication mandatory, a message other than authenticate that arrives on
\* a connection on which no authenticate message has succeeded yet reaches no handler
\* and is answered success false, error 'Authentication required'
C1_AuthenticationRequired ==
    (require_auth /\ srv_call.op = "message" /\ srv_call.type # "authenticate"
        /\ ~srv_call.auth_ok) =>
        /\ srv_call.handler = "none"
        /\ ~srv_call.success
        /\ srv_call.error = "Authentication required"

\* C1 witness: the client authenticated on an earlier connection, and its list_layers
\* on a new connection, before any authenticate there, is refused
C1_Witness ==
    /\ require_auth
    /\ srv_call.op = "message" /\ srv_call.type = "list_layers" /\ ~srv_call.auth_ok
    /\ srv_call.error = "Authentication required"
    /\ conns[srv_call.conn].client_id \in authenticated_clients

(***************************************************************************)
(* Further claims about the framer                                         *)
(***************************************************************************)
\* the size the first four buffered bytes announce
AnnouncedSize(buf) == UnpackHeader(SubSeq(buf, 1, HEADER_SIZE))

\* one complete frame (header plus full payload, of an admissible size) is buffered
CompleteFrame(buf) ==
    /\ Len(buf) >= HEADER_SIZE
    /\ AnnouncedSize(buf) \in 1..MAX_MESSAGE_SIZE
    /\ Len(buf) >= HEADER_SIZE + AnnouncedSize(buf)

\* less than one complete frame is buffered, and no inadmissible header
PartialFrame(buf) ==
    \/ Len(buf) < HEADER_SIZE
    \/ /\ AnnouncedSize(buf) \in 1..MAX_MESSAGE_SIZE
       /\ Len(buf) < HEADER_SIZE + AnnouncedSize(buf)

\* C11: try_read_message returns None, leaving the buffer alone, while less than one
\* complete frame is buffered; with a complete frame buffered it removes exactly that
\* frame's bytes, leaves the later bytes as they were, and what it returns is the
\* message of that frame; so the messages come out one per call, in arrival order
C11_OneFramePerCall ==
    [][fr_call'.op = "try_read" =>
          /\ PartialFrame(buffer) =>
                /\ fr_call'.ret = "None"
                /\ buffer' = buffer
                /\ parsed' = parsed
          /\ CompleteFrame(buffer) =>
                LET total == HEADER_SIZE + AnnouncedSize(buffer)
                    payload == SubSeq(buffer, HEADER_SIZE + 1, total)
                IN
                /\ fr_call'.ret # "None"
                /\ buffer' = SubSeq(buffer, total + 1, Len(buffer))
                /\ fr_call'.ret = "message" =>
                      /\ deserialize(payload).ok
                      /\ parsed' = Append(parsed, deserialize(payload).msg)
                /\ fr_call'.ret = "ProtocolException" =>
                      /\ parsed' = parsed
                      /\ ~(deserialize(payload).ok /\ validate_message(deserialize(payload).msg))
          /\ (wire = pack_message(MsgSmall).bytes \o pack_message(MsgPing).bytes) =>
                parsed' \in {<<>>, <<MsgSmall>>, <<MsgSmall, MsgPing>>}
      ]_vars

\* C11 witness: two frames were buffered back to back, one call has returned the first
\* message and the whole second frame is still in the buffer
C11_Witness ==
    /\ wire = pack_message(MsgSmall).bytes \o pack_message(MsgPing).bytes
    /\ fr_call.op = "try_read" /\ fr_call.ret = "message"
    /\ fr_call.before = Len(wire)
    /\ parsed = <<MsgSmall>>
    /\ buffer = pack_message(MsgPing).bytes

(***************************************************************************)
(* Claims about pack_message and the blocking receive_message              *)
(***************************************************************************)
\* C12: in either format, a valid message comes back equal from deserialize after
\* serialize, and receive_message on the bytes pack_message made of it returns it
C12_FramingRoundTrip ==
    \A m \in RxMessages :
        /\ validate_message(m) =>
              deserialize_as(rx.use_msgpack, serialize_as(rx.use_msgpack, m))
                 = [ok |-> TRUE, msg |-> m]
        /\ LET p == pack_message_as(rx.use_msgpack, m) IN
           (p.ok /\ wire = p.bytes /\ rx.pc = "done" /\ rx.how = "complete") =>
               /\ rx.ret = "message"
               /\ rx.msg = m

\* C12 witness: the JSON handler has received the frame packed from a message with a
\* data mapping
C12_Witness ==
    /\ ~rx.use_msgpack
    /\ pack_message_as(FALSE, MsgData).ok
    /\ wire = pack_message_as(FALSE, MsgData).bytes
    /\ rx.pc = "done" /\ rx.ret = "message" /\ rx.msg = MsgData

\* C13 (as claimed): when the peer's close ends receive_message, it returns None only
\* if no byte of the frame had been read, and raises a protocol error if at least one
\* byte had been read, a close right after the complete header included
C13_CloseMidFrameRaises ==
    (rx.pc = "done" /\ rx.how = "closed") =>
        /\ rx.ret = "None" <=> sent = 0
        /\ sent > 0 => rx.ret = "ProtocolException"

(***************************************************************************)
(* Claims about the connection handler                                     *)
(***************************************************************************)
RECURSIVE FramesWithin(_, _)
\* the frames that lie entirely within the first n bytes of their concatenation
FramesWithin(frames, n) ==
    IF frames = <<>> \/ Len(Head(frames).bytes) > n THEN <<>>
    ELSE <<Head(frames)>> \o FramesWithin(Tail(frames), n - Len(Head(frames).bytes))

\* the ids of the well-formed requests that have arrived on connection 1, in order
ArrivedRequestIds ==
    LET FrameOk(fr) == fr.ok
        arrived == SelectSeq(FramesWithin(hc.frames, sent), FrameOk)
    IN [i \in DOMAIN arrived |-> arrived[i].msg["id"]]

\* the ids of the responses _process_message has produced and the worker has sent
AnsweredIds ==
    LET Dispatched(rsp) == rsp.error \notin {"Invalid request format", "Request too large"}
        answered == SelectSeq(hc.out, Dispatched)
    IN [i \in DOMAIN answered |-> answered[i].id]

IsPrefix(a, b) == Len(a) <= Len(b) /\ a = SubSeq(b, 1, Len(a))

\* C14 (as claimed): the responses carry the ids of the well-formed requests in their
\* arrival order, one each, and whenever the worker waits for more input every
\* well-formed request that has arrived has got its response
C14_FifoOneResponseEach ==
    /\ IsPrefix(AnsweredIds, ArrivedRequestIds)
    /\ hc.pc = "recv" => AnsweredIds = ArrivedRequestIds

\* the connections a worker thread of _handle_client is servicing
Serviced == {conn \in DOMAIN conns : conns[conn].state = "open"}

\* C15: the connections being serviced are never more than MAX_CONNECTIONS, the counter
\* is their number, and a connection is turned away only with the counter at the limit
\* and is then not serviced
C15_ConnectionCap ==
    /\ Cardinality(Serviced) <= MAX_CONNECTIONS
    /\ active_connections = Cardinality(Serviced)
    /\ active_connections >= 0
    /\ srv_call.op = "rejected" =>
          /\ active_connections = MAX_CONNECTIONS
          /\ srv_call.conn \notin Serviced
    /\ srv_call.op = "accept" => srv_call.conn \in Serviced

\* C15 witness: with MAX_CONNECTIONS connections being serviced one more was turned away
C15_Witness ==
    /\ srv_call.op = "rejected"
    /\ Cardinality(Serviced) = MAX_CONNECTIONS
    /\ conns[srv_call.conn].state = "closed"

\* the step hands a message to _process_message (a step of the clock leaves srv_call
\* alone and resets rl_call)
MessageStep ==
    /\ srv_call'.op = "message"
    /\ srv_call' # srv_call \/ rl_call' # NoCall

\* C16: every message the dispatcher receives takes one slot of the budget of its class
\* for the sending client, unless the limiter itself refused it (budget used up, or the
\* client locked out)
C16_EveryMessageConsumesSlot ==
    [][MessageStep /\ srv_call'.error \notin {"Rate limit exceeded. Please slow down.",
                                              "Client locked out"}
       => LET c == conns[srv_call'.conn].client_id
              t == _get_operation_type(srv_call'.type)
          IN Len(Recent(request_history'[Key(c, t)], LimitsOf(t).window))
                = AcceptedWithin(c, t) + 1
      ]_vars

\* C17 as stated: after verify_token has answered True the client is authenticated and
\* has no failure on record and no lockout
C17_VerifyClearsFailures ==
    (rl_call.op = "verify_token" /\ rl_call.ret = "True") =>
        /\ rl_call.client \in authenticated_clients
        /\ failed_auth_attempts[rl_call.client] = <<>>
        /\ lockouts[rl_call.client] = NoLockout

\* C17 amended: verify_token that answers True records the client as authenticated and
\* changes nothing in the limiter; the authenticate handler, which calls
\* record_successful_auth after it, leaves the client authenticated with no failure on
\* record and no lockout
C17_HandlerClearsFailures ==
    [][/\ (rl_call'.op = "verify_token" /\ rl_call'.ret = "True") =>
             /\ rl_call'.client \in authenticated_clients'
             /\ UNCHANGED <<failed_auth_attempts, lockouts, request_history>>
       /\ (srv_call'.op = "_handle_authenticate" /\ srv_call'.success) =>
             /\ rl_call'.op = "record_successful_auth"
             /\ rl_call'.client \in authenticated_clients'
             /\ failed_auth_attempts'[rl_call'.client] = <<>>
             /\ lockouts'[rl_call'.client] = NoLockout
      ]_vars

\* C17 witness: the handler has authenticated a client that was locked out when it was
\* called, and the failures and the lockout are gone
C17_Witness ==
    /\ srv_call.op = "_handle_authenticate"
    /\ srv_call.success
    /\ rl_call.locked
    /\ rl_call.client \in authenticated_clients
    /\ failed_auth_attempts[rl_call.client] = <<>>
    /\ lockouts[rl_call.client] = NoLockout

\* C18: record_successful_auth leaves the client with no lockout and no failure on
\* record; a check of a client without lockout does not raise; and a lockout comes
\* into force only by a record_failed_auth that makes 5 or more failures on record, all
\* of them recorded since the list was last emptied
C18_SuccessClearsAtOnce ==
    [][\A c \in Clients :
          /\ (rl_call'.op = "record_successful_auth" /\ rl_call'.client = c) =>
                /\ lockouts'[c] = NoLockout
                /\ failed_auth_attempts'[c] = <<>>
          /\ (rl_call'.op = "check" /\ rl_call'.client = c /\ lockouts[c] = NoLockout) =>
                rl_call'.ret # "SecurityException"
          /\ (~Locked(lockouts, c) /\ Locked(lockouts', c)) =>
                /\ rl_call'.op = "record_failed_auth"
                /\ rl_call'.client = c
                /\ Len(failed_auth_attempts'[c]) >= 5
                /\ Len(failed_auth_attempts[c]) >= 4
      ]_vars

\* C18 witness: record_successful_auth was called for a client that was locked out, and
\* the lockout and the failures are gone
C18_Witness ==
    /\ rl_call.op = "record_successful_auth"
    /\ rl_call.locked
    /\ lockouts[rl_call.client] = NoLockout
    /\ failed_auth_attempts[rl_call.client] = <<>>

\* 60 * 2^(n-5) by repeated doubling, in the units of LOCKOUT_BASE
RECURSIVE Doubled(_)
Doubled(n) == IF n <= 5 THEN LOCKOUT_BASE ELSE 2 * Doubled(n - 1)

\* the numbers of failures on record a lockout is computed for
FailureCounts == 5..(MaxFailures + 4)

C21_HandlerExceptionsOpaque ==
    (srv_call.op = "message" /\ srv_call.raised # NotRaised) =>
        /\ srv_call.handler = srv_call.type
        /\ ~srv_call.success
        /\ srv_call.error = IF srv_call.raised.exc = "SecurityException"
                            THEN "Operation not permitted" ELSE "Internal server error"
        /\ srv_call.error # srv_call.raised.text
        /\ conns[srv_call.conn].state = "open"

\* C21 witness: the list_layers handler raised RuntimeError and the request was answered
\* 'Internal server error'
C21_Witness ==
    /\ srv_call.op = "message"
    /\ srv_call.type = "list_layers"
    /\ srv_call.raised = Raised("RuntimeError", "QGIS not available")
    /\ srv_call.error = "Internal server error"
    /\ conns[srv_call.conn].state = "open"

(***************************************************************************)
(* Claims about the sandbox                                                *)
(***************************************************************************)
\* the import statements of a tree
ImportsOf(tree) == SelectSeq(Walk(<<tree>>), LAMBDA n : n.kind \in {"Import", "ImportFrom"})

\* a named import of allow-listed symbols from an allow-listed module
NamedAllowedImport(node) ==
    /\ node.kind = "ImportFrom"
    /\ node.name \in DOMAIN ALLOWED_MODULES
    /\ \A i \in DOMAIN node.children :
          node.children[i].name # "*" /\ node.children[i].name \in ALLOWED_MODULES[node.name]

WildcardImport(node) ==
    /\ node.kind = "ImportFrom"
    /\ \E i \in DOMAIN node.children : node.children[i].name = "*"

\* the rest of the tree, import statements and their aliases apart, passes validate_code
RestPasses(tree) ==
    LET nodes == Walk(<<tree>>) IN
    \A i \in DOMAIN nodes :
       nodes[i].kind \notin {"Import", "ImportFrom", "alias"} => ValidateNode(nodes[i]) = ""

\* C22: validate_code returns for code whose imports are all named imports of
\* allow-listed symbols from allow-listed modules, and refuses a wildcard import from an
\* allow-listed module as a wildcard import
C22_AllowListedImportsAccepted ==
    (sb.op = "validate_code") =>
        LET s == SnippetOf(sb.src)
            imports == ImportsOf(s.tree)
        IN
        /\ (s.parses /\ s.len <= max_code_length /\ imports # <<>> /\ RestPasses(s.tree)
               /\ \A i \in DOMAIN imports : NamedAllowedImport(imports[i]))
              => sb.ret = "None"
        /\ (s.parses /\ s.len <= max_code_length /\ Len(imports) = 1
               /\ WildcardImport(imports[1]) /\ imports[1].name \in DOMAIN ALLOWED_MODULES)
              => sb.ret = "Wildcard imports not allowed"

\* an import of a module off the allow-list, a call of a deny-listed primitive by name
\* or as a method, or an access to a dangerous attribute
Forbidden(node) ==
    \/ node.kind = "Import" /\ \E i \in DOMAIN node.children :
                                  node.children[i].name \notin DOMAIN ALLOWED_MODULES
    \/ node.kind = "ImportFrom" /\ node.name \notin DOMAIN ALLOWED_MODULES
    \/ node.kind = "Call" /\ node.children[1].kind \in {"Name", "Attribute"}
                          /\ node.children[1].name \in DANGEROUS_FUNCTIONS
    \/ node.kind = "Attribute" /\ node.name \in DANGEROUS_ATTRS

RECURSIVE ContainsForbidden(_)
ContainsForbidden(node) ==
    Forbidden(node) \/ \E i \in DOMAIN node.children : ContainsForbidden(node.children[i])

\* every node of the tree is of an allow-listed class, and none of them names a
\* deny-listed primitive or a dangerous attribute
RECURSIVE OnlyAllowed(_)
OnlyAllowed(node) ==
    /\ node.kind \in ALLOWED_NODES
    /\ node.kind \in {"Name", "Attribute"} =>
          node.name \notin DANGEROUS_FUNCTIONS \cup DANGEROUS_ATTRS
    /\ \A i \in DOMAIN node.children : OnlyAllowed(node.children[i])

\* C23: validate_code raises for every snippet with a forbidden construct anywhere in
\* its tree, and returns for a snippet of allow-listed constructs only, x = sum([1,2,3])
\* among them
C23_ForbiddenAnywhereRejected ==
    (sb.op = "validate_code") =>
        LET s == SnippetOf(sb.src) IN
        /\ ContainsForbidden(s.tree) => sb.ret # "None"
        /\ (s.parses /\ s.len <= max_code_length /\ OnlyAllowed(s.tree)) => sb.ret = "None"
        /\ sb.src = "x = sum([1,2,3])" => sb.ret = "None"
        /\ sb.src \in {"import os", "eval('1')", "[].__class__.__bases__"} => sb.ret # "None"

\* C23 witness: a call of open three levels down in the tree was refused
C23_Witness ==
    /\ sb.op = "validate_code"
    /\ sb.src = "x = [len([open('a')])]"
    /\ sb.ret = "Dangerous function call"

\* C24: whatever was handed to exec is the snippet of the call and its validation had
\* succeeded in that call; a call for a snippet that validate_code refuses raises that
\* refusal, runs nothing and starts no operation; and a snippet waiting for its
\* asynchronous run is one that validate_code accepts
C24_ExecuteOnlyAfterValidate ==
    /\ sb.executed # "" =>
          /\ sb.executed = sb.src
          /\ sb.checked = sb.src
          /\ ValidateCode(SnippetOf(sb.src)) = "None"
    /\ (sb.op \notin {"none", "validate_code"}
           /\ ValidateCode(SnippetOf(sb.src)) # "None") =>
          /\ sb.executed = ""
          /\ sb.ret = ValidateCode(SnippetOf(sb.src))
          /\ sb.op = "_handle_execute_code_async" => sb.pending = ""
    /\ sb.pending # "" => ValidateCode(SnippetOf(sb.pending)) = "None"

\* C24 witness: the asynchronous handler has run a snippet to its end
C24_Witness ==
    /\ sb.op = "async_handler"
    /\ sb.executed = "result = len([1])"
    /\ sb.checked = sb.executed
    /\ sb.ret = "returned"

(***************************************************************************)
(* More claims about the async operation manager                           *)
(***************************************************************************)
\* C25: a call of the progress callback of an operation whose cancellation was requested
\* before it raises InterruptedError and records nothing; otherwise it records the
\* percent and the message, and raises TimeoutError if more than the operation's timeout
\* has passed since _execute_with_timeout began, and returns if not
C25_ProgressCallback ==
    [][\A e \in ExecIds :
          executors'[e].cb # executors[e].cb =>
             /\ executors[e].pc = "handler"
             /\ IF executors[e].cancelled
                THEN /\ executors'[e].cb = "InterruptedError"
                     /\ executors'[e].exc = "InterruptedError"
                     /\ executors'[e].pc = "raised"
                     /\ executors'[e].progress = executors[e].progress
                     /\ executors'[e].progress_message = executors[e].progress_message
                ELSE /\ executors'[e].progress \in Percents
                     /\ executors'[e].progress_message = "msg"
                     /\ IF executors[e].elapsed > executors[e].timeout
                        THEN /\ executors'[e].cb = "TimeoutError"
                             /\ executors'[e].exc = "TimeoutError"
                             /\ executors'[e].pc = "raised"
                        ELSE /\ executors'[e].cb = "returned"
                             /\ executors'[e].pc = "handler"
      ]_vars

\* C25 witness: one call of the callback returned, cancellation was requested, and the
\* next call raised InterruptedError
C25_Witness ==
    \E e \in ExecIds :
        /\ executors[e].cb = "InterruptedError"
        /\ executors[e].cancelled
        /\ executors[e].progress \in Percents

\* C26: start_operation with an id that is in the table raises ValueError and changes
\* neither the table nor any executor, and an executor is created only for an id that
\* was not in the table
C26_DuplicateIdRejected ==
    [][/\ (mgr_ret' = "ValueError" /\ mgr_ret' # mgr_ret) =>
             /\ \E rid \in OpIds : operations[rid] # 0
             /\ UNCHANGED <<operations, executors>>
       /\ Len(executors') > Len(executors) =>
             /\ operations[executors'[Len(executors')].request_id] = 0
             /\ mgr_ret' = "started"
             /\ \A e \in ExecIds : executors'[e] = executors[e]
       /\ \A rid \in OpIds :
             (operations[rid] # 0 /\ operations'[rid] # 0) => operations'[rid] = operations[rid]
      ]_vars

\* C26 witness: start_operation was refused for an id whose operation is still running
C26_Witness ==
    /\ mgr_ret = "ValueError"
    /\ \E rid \in OpIds : operations[rid] # 0 /\ executors[operations[rid]].status = RUNNING

\* C27: an operation that has ended and whose retention period has passed since is
\* eventually out of the table
C27_EndedEventuallyRemoved ==
    \A rid \in OpIds :
        (operations[rid] # 0 /\ OldEnough(operations[rid])) ~> (operations[rid] = 0)

(***************************************************************************)
(* Claims about the limiter's periodic cleanup                             *)
(***************************************************************************)
\* C28: the cleanup keeps the limiter's state bounded: once more distinct clients
\* than the cleanup threshold have made requests, fewer entries remain in
\* request_history than clients were seen
C28_TrackingBounded ==
    Cardinality(lm.seen) > CLEANUP_THRESHOLD
        => Cardinality(DOMAIN lm.request_history) < Cardinality(lm.seen)

\* when the cleanup runs it leaves no key whose newest request is older than twice
\* the longest window
CleanupRemovesStale ==
    lm.cleaned => \A key \in DOMAIN lm.request_history : ~Stale(lm.request_history[key])

(***************************************************************************)
(* Claims about the session of a connection                                *)
(***************************************************************************)
\* the client identity is the peer of a connection that is open
Connected(client_id) ==
    \E conn \in Conns : conns[conn].state = "open" /\ conns[conn].client_id = client_id

\* C29: the session of a client lives as long as its connection: the server holds
\* authenticated state only for identities whose connection is open, and a
\* connection that has just been accepted is unauthenticated
C29_SessionEndsWithConnection ==
    /\ \A client_id \in authenticated_clients : Connected(client_id)
    /\ (require_auth /\ srv_call.op = "accept") => ~conns[srv_call.conn].authenticated

\* a connection that has just been accepted is unauthenticated
AcceptedUnauthenticated ==
    (require_auth /\ srv_call.op = "accept") => ~conns[srv_call.conn].authenticated

(***************************************************************************)
(* Claims about the statuses of an operation                               *)
(***************************************************************************)
\* C30: the terminal statuses are absorbing: an operation whose status is completed,
\* failed, cancelled or timeout keeps that status in every later step
C30_TerminalAbsorbing ==
    [][\A e \in ExecIds :
          executors[e].status \in TerminalStatus
              => executors'[e].status = executors[e].status]_vars

(***************************************************************************)
(* Claims about the slots of the manager and the table                     *)
(***************************************************************************)
\* the worker of executor e has been started and its handler has neither returned
\* nor raised
InProgress(e) == executors[e].pc \in {"created", "handler"}

\* the handler of executor e is executing
HandlerExecuting(e) == executors[e].pc = "handler"

\* C31: the number of handler invocations in progress never exceeds max_concurrent
C31_InProgressWithinCap ==
    Cardinality({e \in ExecIds : InProgress(e)}) <= max_concurrent

\* the same for the handlers that are executing
ExecutingWithinCap ==
    Cardinality({e \in ExecIds : HandlerExecuting(e)}) <= max_concurrent

\* C32: an operation has an end time exactly when its status is terminal, and an
\* operation whose worker has finished is in a terminal status
C32_EndTimeIffTerminal ==
    \A e \in ExecIds :
        /\ executors[e].ended <=> executors[e].status \in TerminalStatus
        /\ executors[e].pc = "done" => executors[e].status \in TerminalStatus

\* the workers of request id rid that are alive
LiveWorkers(rid) == {e \in ExecIds : executors[e].request_id = rid /\ InProgress(e)}

\* a step takes no operation out of the table while its handler is executing
NoLiveRemoved ==
    \A rid \in OpIds :
        (operations[rid] # 0 /\ operations'[rid] = 0) => ~HandlerExecuting(operations[rid])

\* C33: cleanup_completed never removes an operation whose handler is still
\* executing, and at no time are two workers of the same request id alive
C33_NoLiveOperationRemoved ==
    /\ [][NoLiveRemoved]_vars
    /\ [](\A rid \in OpIds : Cardinality(LiveWorkers(rid)) <= 1)

(***************************************************************************)
(* More claims about the connection handler                                *)
(***************************************************************************)
\* positions of the well-formed requests among the frames a peer sends
RequestPositions == {1, 2}

\* the worker waits in recv and the peer has no byte in flight
WaitingForInput == hc.pc = "recv" /\ sent = Len(wire)

RECURSIVE FrameStarts(_, _)
\* the offsets in the byte stream w at which a frame begins, from offset at on: a
\* frame is its 4-byte header and as many payload bytes as the header announces
FrameStarts(w, at) ==
    IF at + HEADER_SIZE > Len(w) THEN {at}
    ELSE {at} \cup FrameStarts(w, at + HEADER_SIZE
                                   + UnpackHeader(SubSeq(w, at + 1, at + HEADER_SIZE)))

\* the offset in the stream of the first byte of the buffer
BufferOffset == sent - Len(buffer)

\* this step is a try_read_message that unpacks a header
ReadsHeader ==
    /\ fr_call'.op = "try_read"
    /\ expected_message_size = NoSize
    /\ Len(buffer) >= HEADER_SIZE

\* C35: every header try_read_message unpacks, and so every message it parses, begins
\* at a frame boundary of the stream the peer sent, also after a header was rejected
C35_FrameSynchronised ==
    [][ReadsHeader => BufferOffset \in FrameStarts(wire, 0)]_vars

\* C36: a frame pack_message accepts can be received: fed into the empty buffer, no
\* feed of its bytes raises the overflow, and try_read_message, called with the whole
\* frame in, has returned the message
C36_PackedFrameReceivable ==
    \A m \in Messages :
        (pack_message(m).ok /\ wire = pack_message(m).bytes) =>
            /\ fr_call.op = "feed" => fr_call.ret = "fed"
            /\ (sent = Len(wire) /\ fr_call.op = "try_read") => parsed = <<m>>

(***************************************************************************)
(* More claims about the dispatcher                                        *)
(***************************************************************************)
\* C37: while a client is locked out, a message of it that the dispatcher receives
\* reaches no handler and changes neither the lockout nor the failures on record nor
\* the authenticated clients; an authenticate message is answered with the locked-out
\* error whatever its token; and a lockout ends only when its time has run out
C37_LockedOutReachesNoHandler ==
    [][\A conn \in Conns :
          LET c == conns[conn].client_id IN
          /\ (MessageStep /\ srv_call'.conn = conn /\ Locked(lockouts, c)) =>
                /\ srv_call'.handler = "none"
                /\ ~srv_call'.success
                /\ srv_call'.error \in {"Client locked out", "Authentication required"}
                /\ srv_call'.type = "authenticate" => srv_call'.error = "Client locked out"
                /\ UNCHANGED <<lockouts, failed_auth_attempts, authenticated_clients>>
                /\ conns'[conn].authenticated = conns[conn].authenticated
          /\ (conns[conn].state = "open" /\ Locked(lockouts, c) /\ ~Locked(lockouts', c)) =>
                /\ ~MessageStep
                /\ lockouts[c] = 1
      ]_vars

\* C37 witness: an authenticate message of a client that is locked out has been
\* answered with the locked-out error, and the lockout is still in force
C37_Witness ==
    /\ srv_call.op = "message"
    /\ srv_call.type = "authenticate"
    /\ srv_call.error = "Client locked out"
    /\ srv_call.handler = "none"
    /\ rl_call = RlCall("check", conns[srv_call.conn].client_id, "authentication",
                        "SecurityException", TRUE)
    /\ Locked(lockouts, conns[srv_call.conn].client_id)

\* the step hands an authenticate message of the peer of conn to _process_message
AuthenticateStep(conn) ==
    MessageStep /\ srv_call'.conn = conn /\ srv_call'.type = "authenticate"

\* C38: the dispatcher verifies the token of a client at most max_count times of the
\* authentication class within any window: every verification takes a slot of that
\* budget, lockout or not, and an authenticate message that finds the budget used up is
\* answered without a verification and without a failure being recorded
C38_VerificationsWithinBudget ==
    [][\A conn \in Conns :
          LET c == conns[conn].client_id
              budget == LimitsOf("authentication").max
          IN
          AuthenticateStep(conn) =>
              /\ srv_call'.handler = "authenticate" =>
                    /\ AcceptedWithin(c, "authentication") < budget
                    /\ AcceptedWithin(c, "authentication")'
                          = AcceptedWithin(c, "authentication") + 1
              /\ AcceptedWithin(c, "authentication")' <= budget
              /\ AcceptedWithin(c, "authentication") >= budget =>
                    /\ srv_call'.handler = "none"
                    /\ ~srv_call'.success
                    /\ UNCHANGED <<failed_auth_attempts, authenticated_clients>>
                    /\ rl_call'.op = "check"
      ]_vars

\* C38 witness: an authenticate message has been turned away for the rate, the budget
\* of the authentication class used up by verifications that failed
C38_Witness ==
    /\ srv_call.op = "message"
    /\ srv_call.type = "authenticate"
    /\ srv_call.error = "Rate limit exceeded. Please slow down."
    /\ srv_call.handler = "none"
    /\ AcceptedWithin(conns[srv_call.conn].client_id, "authentication")
          = LimitsOf("authentication").max
    /\ RecentFailures(conns[srv_call.conn].client_id) >= LimitsOf("authentication").max

(***************************************************************************)
(* Claims about the client                                                 *)
(***************************************************************************)
\* C39: with auto_authenticate, every request other than authenticate that the client
\* sends goes out on a socket on which an authenticate exchange has succeeded
C39_AuthenticatedBeforeRequest ==
    cl.sent.kind = "request" => cl.sent.authed

\* the sockets that are open and in the pool or held by a thread
PooledOrOut ==
    {i \in DOMAIN cl.socks :
        /\ cl.socks[i].open
        /\ \/ \E j \in DOMAIN cl.pool : cl.pool[j] = i
           \/ \E t \in Threads : cl.th[t].conn = i}

\* C40: the pool's counter is the number of open sockets that are pooled or checked
\* out and is never more than max_connections, and so a thread waits for a socket only
\* while there is one to wait for
C40_CounterMatchesConnections ==
    /\ cl.active = Cardinality(PooledOrOut)
    /\ cl.active <= max_connections
    /\ \A t \in Threads : cl.th[t].pc = "wait" => PooledOrOut # {}

====
